---- MODULE Spec2Model ----
(***************************************************************************)
(* The RAG evaluation driver of examples/knowledge/evaluation/main.py:     *)
(* run_evaluation loads the QA items, loads the documents into the         *)
(* knowledge base (unless skipped), asks every question (strict or native  *)
(* mode), hands the collected samples to the evaluator and writes the      *)
(* report.  The knowledge base, the dataset and the evaluator are external *)
(* collaborators: every call to them is a step whose outcome (a returned   *)
(* value or a raised exception) is chosen from a small set.                *)
(***************************************************************************)
EXTENDS Integers, Sequences, FiniteSets, TLC

\* ------------------------------------------------------------------ bounds
MaxQA == 2
MaxDocs == 2

\* ------------------------------------------------------------- Python values
\* Python's None, where a string is expected.
NoneVal == "<None>"

\* The fixed texts of main.py.
FailedAnswer == "Error: failed to generate answer."
PlaceholderContext == "No relevant context found."
\* CrossMark stands for the character U+274C followed by a space.
CrossMark == "(x) "
NoSamplesMsg == CrossMark \o "No samples collected. Cannot run evaluation."
EvalFailedPrefix == CrossMark \o "Evaluation failed: "

\* str.strip() on the strings of the model.
Strip(s) ==
    CASE s = " q1 " -> "q1"
      [] s = " q2 " -> "q2"
      [] s = "  "   -> ""
      [] OTHER      -> s

\* isinstance(x, str), for a value that is a string or None.
IsStr(x) == x # NoneVal

\* bool(x) of a string or None.
Truthy(x) == x # NoneVal /\ x # ""

\* ------------------------------------------------------------------ inputs
\* The QA items a dataset can yield: (question, ground-truth answer).
QAPool == { [question |-> "q1", answer |-> "g1"],
            [question |-> "q2", answer |-> "g2"] }

SeqsUpTo(S, n) == UNION { [1..k -> S] : k \in 0..n }

\* The lists dataset.load_qa_items can return.  The two items of the pool
\* differ in name only, so the lists that start with the second item add
\* nothing to those that start with the first.
QADatasets ==
    { d \in SeqsUpTo(QAPool, MaxQA) : d = <<>> \/ d[1].question = "q1" }

EvalModes == {"strict", "native", "other"}
OutputFiles == {NoneVal, "", "out.json"}

\* A document directory: every name with whether it is a regular file.
DocDirs == [1..MaxDocs -> BOOLEAN]

\* What os.listdir can return: names of the directory, each once, in any
\* order.
Listings ==
    { l \in SeqsUpTo(1..MaxDocs, MaxDocs) :
        \A a, b \in 1..Len(l) : a # b => l[a] # l[b] }

\* What the service can answer to POST /load: an HTTP error, or a JSON body
\* with its success flag.
LoadResponses ==
    { [http_ok |-> TRUE, success |-> TRUE],
      [http_ok |-> TRUE, success |-> FALSE],
      [http_ok |-> FALSE, success |-> FALSE] }

\* An agent trace: is_dict tells a dict from None; item is the QA item whose
\* kb.answer call produced it (0: none).
NoTrace == [is_dict |-> FALSE, tool_queries |-> <<>>, tool_calls |-> <<>>,
            item |-> 0]
Trace(tq, tc, i) == [is_dict |-> TRUE, tool_queries |-> tq, tool_calls |-> tc,
                     item |-> i]

\* An entry of trace["tool_calls"]: the kind of its "arguments" (a dict, a
\* string holding the JSON of a dict, a string that is no JSON, None) and the
\* value under "query" in them.
ToolCall(kind, query) == [is_dict |-> TRUE,
                          arguments |-> [kind |-> kind, query |-> query]]

\* SearchResult(content, score, metadata, trace): metadata is reduced to its
\* tool_query entry (NoneVal: no such key).
Result(c, tq, tr) == [content |-> c, tool_query |-> tq, trace |-> tr]

\* What kb.search can return.
SearchReturns ==
    { <<>>,
      <<Result("c2", "q0", NoTrace), Result("c1", NoneVal, NoTrace)>> }

\* The trace an agent leaves for item n with question q: its tool queries,
\* and the tool call of the Go service.
AgentTrace(q, n) ==
    Trace(<<q, "  ">>, <<ToolCall("json_dict", " " \o q \o " ")>>, n)

\* What kb.answer can return for item n with question q: the answer text
\* (None: a JSON null of the remote service), the search results of the
\* agent's tool calls, and the trace it stores in kb.last_trace (NoTrace: the
\* variant keeps none).
AnswerReturns(q, n) ==
    LET tr == AgentTrace(q, n) IN
    { [answer |-> "a1", results |-> <<>>, trace |-> NoTrace],
      [answer |-> "a1", results |-> <<>>, trace |-> tr],
      [answer |-> "a1", trace |-> NoTrace,
       results |-> <<Result("c3", NoneVal, NoTrace),
                     Result("c3", NoneVal, NoTrace)>>],
      [answer |-> "a1", trace |-> tr,
       results |-> <<Result("c4", " " \o q \o " ", tr),
                     Result("c3", "q0", tr)>>],
      [answer |-> NoneVal, results |-> <<>>, trace |-> NoTrace] }

\* The elapsed times of one question, in hundredths of a second.
ElapsedTimes == {1}

\* The results evaluator.evaluate can return.
EvalResults == {"metrics A", "metrics B"}

VARIABLES
    pc,            \* where run_evaluation is
    qa_dataset,    \* what dataset.load_qa_items will return
    eval_mode, skip_load, output_file,   \* arguments
    qa_items, i,   \* the loaded items; the number of items finished
    search_results, \* strict mode: the results of the item's kb.search
    samples, errors, qa_times, sample_debug,
    kb_docs,       \* what the knowledge base has loaded
    kb_last_trace, \* kb.last_trace
    calls,         \* the calls made to kb and evaluator, in order, each with
                   \* its outcome
    eval_samples,  \* the list evaluator.evaluate was called with
    result,        \* what the evaluator returned
    report,        \* the report file: NoReport or the written mapping
    ret            \* what run_evaluation returned or raised

\* The helpers of main.py applied on their own: the arguments of
\* extract_retrieval_queries and of _dedupe_queries, and what was returned.
VARIABLES
    xq_search_results, xq_fallback_trace,
    dq_queries,
    fn_result

run_vars == << pc, qa_dataset, eval_mode, skip_load, output_file, qa_items,
               i, search_results, samples, errors,
               qa_times, sample_debug, kb_docs, kb_last_trace, calls,
               eval_samples, result, report, ret >>

fn_vars == << xq_search_results, xq_fallback_trace, dq_queries, fn_result >>

\* No helper was applied yet.
NoFnResult == [op |-> "none", value |-> <<>>, first |-> <<>>]

\* The helpers are not applied.
FnIdle ==
    /\ xq_search_results = <<>>
    /\ xq_fallback_trace = NoTrace
    /\ dq_queries = <<>>
    /\ fn_result = NoFnResult

\* TRPCAgentGoKnowledgeBase and its Go service, for the instances one Python
\* process creates.
VARIABLES
    svc_pc,        \* where the process is: between constructors ("idle"), in
                   \* _ensure_service_running, _build_service, _start_service,
                   \* in the atexit hooks, or exited
    svc_external,  \* per port: a service not started here answers /health
    svc_instances, \* the number of instances constructed so far
    svc_port,      \* self.port of the instance being constructed
    _process,      \* TRPCAgentGoKnowledgeBase._process: 0 (None) or a pid
    svc_procs,     \* the processes spawned, by pid: port and state
    svc_checks,    \* _check_health calls made by the current _start_service
    atexit_hooks,  \* the number of registered _stop_service hooks
    hooks_left,    \* the hooks still to run at exit
    svc_call       \* the current or last constructor call and its outcome

svc_vars == << svc_pc, svc_external, svc_instances, svc_port, _process,
               svc_procs, svc_checks, atexit_hooks, hooks_left, svc_call >>

\* A constructor call that has not finished: what it did so far.
NewSvcCall ==
    [outcome |-> "running", built |-> FALSE, spawned |-> 0,
     last_poll |-> "none", last_health |-> FALSE]

\* No instance is constructed.
SvcIdle ==
    /\ svc_pc = "unused"
    /\ svc_external = <<>>
    /\ svc_instances = 0
    /\ svc_port = 0
    /\ _process = 0
    /\ svc_procs = <<>>
    /\ svc_checks = 0
    /\ atexit_hooks = 0
    /\ hooks_left = 0
    /\ svc_call = NewSvcCall

\* CrewAIKnowledgeBase._split_text: the text, the chunking parameters, the
\* loop variable and the chunks appended so far.
VARIABLES
    split_pc, split_text, _chunk_size, _chunk_overlap, split_start, chunks

split_vars == << split_pc, split_text, _chunk_size, _chunk_overlap,
                 split_start, chunks >>

\* _split_text is not called.
SplitIdle ==
    /\ split_pc = "unused"
    /\ split_text = <<>>
    /\ _chunk_size = 0
    /\ _chunk_overlap = 0
    /\ split_start = 0
    /\ chunks = <<>>

\* CrewAIKnowledgeBase.search and its strict-mode caller: the arguments, the
\* store, what collection.query was asked and answered, what search
\* returned, and the errors list of the caller.
VARIABLES
    crew_pc, crew_k, _max_results, knowledge_path_exists, collection_count,
    n_results, query_distances, crew_out, crew_errors

crew_vars == << crew_pc, crew_k, _max_results, knowledge_path_exists,
                collection_count, n_results, query_distances, crew_out,
                crew_errors >>

\* search has not returned: no results, not raised.
NoCrewOut == [raised |-> FALSE, failed |-> FALSE, results |-> <<>>]

\* search is not called.
CrewIdle ==
    /\ crew_pc = "unused"
    /\ crew_k = 0
    /\ _max_results = 0
    /\ knowledge_path_exists = FALSE
    /\ collection_count = 0
    /\ n_results = 0
    /\ query_distances = <<>>
    /\ crew_out = NoCrewOut
    /\ crew_errors = <<>>

\* The batch loop of the LangChain and CrewAI load: which knowledge base,
\* how many chunks the split produced, the loop variable i, the add calls
\* made so far and the chunks the store holds.
VARIABLES batch_pc, batch_kb, batch_total, batch_i, batch_adds, batch_store

batch_vars ==
    << batch_pc, batch_kb, batch_total, batch_i, batch_adds, batch_store >>

\* load is not called.
BatchIdle ==
    /\ batch_pc = "unused"
    /\ batch_kb = "none"
    /\ batch_total = 0
    /\ batch_i = 0
    /\ batch_adds = <<>>
    /\ batch_store = {}

\* _fetch_rows of the dataset downloader: the position of the call, its
\* offset and rows, the requests it made with the pages they were answered
\* with, how the call ended, and the parity of the pages requested after the
\* MaxPages pages that are recorded.
VARIABLES fetch_pc, fetch_offset, fetch_rows, fetch_log, fetch_end,
          fetch_beyond

fetch_vars ==
    << fetch_pc, fetch_offset, fetch_rows, fetch_log, fetch_end,
       fetch_beyond >>

\* _fetch_rows is not called.
FetchIdle ==
    /\ fetch_pc = "unused"
    /\ fetch_offset = 0
    /\ fetch_rows = <<>>
    /\ fetch_log = <<>>
    /\ fetch_end = "none"
    /\ fetch_beyond = FALSE

\* The dataset downloader (download_gaia_2023_level1_validation.py): the
\* number of runs of main so far, the position of the current run, its
\* argv and parsed arguments, the attachment paths of its tasks and the next
\* one to visit, the files under data_dir, the dataset JSON, the attachment
\* requests of the current run, and how the current run ended.
VARIABLES dl_runs, dl_pc, dl_argv, dl_args, dl_file_paths, dl_next, dl_fs,
          dl_json, dl_requests, dl_result

dl_vars ==
    << dl_runs, dl_pc, dl_argv, dl_args, dl_file_paths, dl_next, dl_fs,
       dl_json, dl_requests, dl_result >>

\* The attachment files the dataset can refer to, in sorted order.
Files == <<"a.pdf", "b.png">>

\* The arguments before parsing: the defaults (lines 274, 288-292).
NoArgs == [skip_files |-> TRUE, force |-> FALSE]

\* A run that has not ended.
NoResult ==
    [outcome |-> "none", code |-> 0, failure |-> "none",
     json_written |-> FALSE, completed |-> 0]

\* main is not called.
DlIdle ==
    /\ dl_runs = 0
    /\ dl_pc = "unused"
    /\ dl_argv = <<>>
    /\ dl_args = NoArgs
    /\ dl_file_paths = <<>>
    /\ dl_next = 1
    /\ dl_fs = [f \in {} |-> "missing"]
    /\ dl_json = "missing"
    /\ dl_requests = <<>>
    /\ dl_result = NoResult

\* ---- the variables of the other programs of the repository
lib_vars == << svc_vars, split_vars, crew_vars, batch_vars, fetch_vars, dl_vars >>

\* Every program but x is left alone.
LibUnchanged(x) ==
    /\ IF x = "svc" THEN TRUE ELSE UNCHANGED svc_vars
    /\ IF x = "split" THEN TRUE ELSE UNCHANGED split_vars
    /\ IF x = "crew" THEN TRUE ELSE UNCHANGED crew_vars
    /\ IF x = "batch" THEN TRUE ELSE UNCHANGED batch_vars
    /\ IF x = "fetch" THEN TRUE ELSE UNCHANGED fetch_vars
    /\ IF x = "dl" THEN TRUE ELSE UNCHANGED dl_vars

\* Every program but x is not running.
LibIdle(x) ==
    /\ x = "svc" \/ SvcIdle
    /\ x = "split" \/ SplitIdle
    /\ x = "crew" \/ CrewIdle
    /\ x = "batch" \/ BatchIdle
    /\ x = "fetch" \/ FetchIdle
    /\ x = "dl" \/ DlIdle

vars == << run_vars, fn_vars, lib_vars >>

NoReport == [written |-> FALSE]
NoRet == [kind |-> "running", value |-> ""]
\* A call of the dataset, of kb.load, kb.search, kb.answer or
\* evaluator.evaluate: the QA item
\* it was made for (0: none), the question passed, and the outcome: "raised",
\* "ok", "null" (kb.answer returned None as the answer) or, for evaluate,
\* the string returned.
\* val is what a kb.search or kb.answer call returned, with the trace of the
\* response, NoVal otherwise. Of a strict-mode kb.answer call the log keeps
\* the text only: its results are dropped at main.py 241 and its trace is
\* not read (main.py 63-65).
NoVal == [answer |-> NoneVal, results |-> <<>>, trace |-> NoTrace]
CallVal(op, item, q, out, val) ==
    [op |-> op, item |-> item, q |-> q, out |-> out, val |-> val]
Call(op, item, q, out) == CallVal(op, item, q, out, NoVal)

\* ------------------------------------------------------- retrieval queries
\* _normalize_query: the stripped string when it is a non-empty string.
_normalize_query(query) ==
    IF IsStr(query) /\ Strip(query) # "" THEN Strip(query) ELSE NoneVal

\* _extract_query_from_tool_call_arguments.  The arguments are a dict, a
\* string holding the JSON of a dict, another string, or something else;
\* query is the value under "query" (NoneVal: no such key).
_extract_query_from_tool_call_arguments(arguments) ==
    CASE arguments.kind = "dict" -> _normalize_query(arguments.query)
      [] arguments.kind = "json_dict" -> _normalize_query(arguments.query)
      [] OTHER -> NoneVal

\* A variant of _dedupe_queries that drops a query only when it repeats
\* the one just before it.
RECURSIVE _dedupe_queries_Adjacent(_)
_dedupe_queries_Adjacent(queries) ==
    IF Len(queries) <= 1 THEN queries
    ELSE IF queries[1] = queries[2]
         THEN _dedupe_queries_Adjacent(Tail(queries))
         ELSE <<Head(queries)>> \o _dedupe_queries_Adjacent(Tail(queries))

\* _dedupe_queries: the first occurrence of every query, in order.
RECURSIVE DedupeFrom(_, _)
DedupeFrom(queries, seen) ==
    IF queries = <<>> THEN <<>>
    ELSE IF Head(queries) \in seen THEN DedupeFrom(Tail(queries), seen)
    ELSE <<Head(queries)>> \o DedupeFrom(Tail(queries), seen \cup {Head(queries)})

_dedupe_queries(queries) == DedupeFrom(queries, {})

\* The values of a list that are not None, in order.
RECURSIVE DropNone(_)
DropNone(s) ==
    IF s = <<>> THEN <<>>
    ELSE (IF Head(s) # NoneVal THEN <<Head(s)>> ELSE <<>>) \o DropNone(Tail(s))

\* The first trace of the results that is a dict, else NoTrace.
RECURSIVE FirstDictTrace(_)
FirstDictTrace(rs) ==
    IF rs = <<>> THEN NoTrace
    ELSE IF Head(rs).trace.is_dict THEN Head(rs).trace
    ELSE FirstDictTrace(Tail(rs))

\* main.py 67-106: the queries of the results' metadata, then those of the
\* trace (the first dict trace of the results, else the fallback trace).
NativeQueries(results, fallback_trace) ==
      LET fromMeta == DropNone([k \in 1..Len(results) |->
                                  _normalize_query(results[k].tool_query)])
          first == FirstDictTrace(results)
          trace == IF ~first.is_dict /\ fallback_trace.is_dict
                   THEN fallback_trace ELSE first
          fromQueries ==
              IF trace.is_dict
              THEN DropNone([k \in 1..Len(trace.tool_queries) |->
                               _normalize_query(trace.tool_queries[k])])
              ELSE <<>>
          fromCalls ==
              IF trace.is_dict
              THEN DropNone([k \in 1..Len(trace.tool_calls) |->
                      IF trace.tool_calls[k].is_dict
                      THEN _extract_query_from_tool_call_arguments(
                               trace.tool_calls[k].arguments)
                      ELSE NoneVal])
              ELSE <<>>
      IN _dedupe_queries(fromMeta \o fromQueries \o fromCalls)

\* A variant that reads the metadata and the trace in strict mode too.
extract_retrieval_queries_NoStrict(question, mode, results, fallback_trace) ==
    NativeQueries(results, fallback_trace)

\* extract_retrieval_queries (main.py 56-106).
extract_retrieval_queries(question, mode, results, fallback_trace) ==
    IF mode = "strict" THEN <<question>>
    ELSE NativeQueries(results, fallback_trace)

\* ------------------------------------------------------------ run_evaluation
build_run_manifest == [eval_mode |-> eval_mode, skip_load |-> skip_load]

RECURSIVE Sum(_)
Sum(s) == IF s = <<>> THEN 0 ELSE Head(s) + Sum(Tail(s))

\* sum(qa_times) / len(qa_times) if qa_times else 0, in whole hundredths.
avg_time == IF qa_times # <<>> THEN Sum(qa_times) \div Len(qa_times) ELSE 0

\* A variant of sorted that keeps the order of the listing.
sorted_Unsorted(l) == l

\* sorted(l): the names of l in increasing order.
RECURSIVE sorted(_)
sorted(l) ==
    IF l = <<>> THEN <<>>
    ELSE LET m == CHOOSE a \in 1..Len(l) : \A b \in 1..Len(l) : l[a] <= l[b]
         IN <<l[m]>> \o sorted(SubSeq(l, 1, m - 1) \o SubSeq(l, m + 1, Len(l)))

\* main.py 207-211: the regular files of the directory, in the order of
\* the sorted listing.
file_paths(listing, isfile) ==
    LET names == sorted(listing)
        IsFile(name) == isfile[name]
    IN SelectSeq(names, IsFile)

\* TRPCAgentGoKnowledgeBase.load: raise_for_status, then RuntimeError unless
\* the body reports success.
load_raises(response) == ~response.http_ok \/ ~response.success

Init ==
    /\ pc = "start"
    /\ qa_dataset \in QADatasets
    /\ eval_mode \in EvalModes
    /\ skip_load \in BOOLEAN
    /\ output_file \in OutputFiles
    /\ qa_items = <<>>
    /\ i = 0
    /\ search_results = <<>>
    /\ samples = <<>>
    /\ errors = <<>>
    /\ qa_times = <<>>
    /\ sample_debug = <<>>
    /\ kb_docs = <<>>
    /\ kb_last_trace = NoTrace
    /\ calls = <<>>
    /\ eval_samples = <<>>
    /\ result = NoneVal
    /\ report = NoReport
    /\ ret = NoRet
    /\ FnIdle
    /\ LibIdle("run")

Raise(err) == [kind |-> "raised", value |-> err]
Return(v) == [kind |-> "returned", value |-> v]

\* Step 1 (main.py 195-198): dataset.load_qa_items returns or raises.
LoadQAItems ==
    /\ pc = "start"
    /\ \/ /\ calls' = Append(calls, Call("load_qa_items", 0, "", "ok"))
          /\ qa_items' = qa_dataset
          /\ pc' = "load"
          /\ ret' = ret
       \/ /\ calls' = Append(calls, Call("load_qa_items", 0, "", "raised"))
          /\ qa_items' = qa_items
          /\ pc' = "done"
          /\ ret' = Raise("dataset error")
    /\ UNCHANGED << fn_vars, lib_vars, qa_dataset, eval_mode, skip_load, output_file,
                    i, search_results, samples, errors, qa_times,
                    sample_debug, kb_docs, kb_last_trace, eval_samples,
                    result, report >>

\* A variant of step 2 that probes the knowledge base with a search before
\* it loads the documents.
LoadDocuments_ProbeFirst ==
    /\ pc = "load"
    /\ \/ /\ skip_load
          /\ pc' = "qa"
          /\ UNCHANGED << kb_docs, calls, ret >>
       \/ /\ ~skip_load
          /\ \E isfile \in DocDirs, listing \in Listings :
               /\ calls' = calls \o
                     << Call("load_documents", 0, "", "ok"),
                        Call("search", 0, "probe", "ok"),
                        Call("load", 0, "", "ok") >>
               /\ kb_docs' = file_paths(listing, isfile)
               /\ pc' = "qa"
               /\ ret' = ret
    /\ UNCHANGED << fn_vars, lib_vars, qa_dataset, eval_mode, skip_load, output_file,
                    qa_items, i, search_results, samples, errors,
                    qa_times, sample_debug, kb_last_trace, eval_samples, result,
                    report >>

\* A variant of step 2 that catches a failure of the load and goes on to
\* the questions with the knowledge base as it is.
LoadDocuments_CatchLoad ==
    /\ pc = "load"
    /\ pc' = "qa"
    /\ ret' = ret
    /\ \/ /\ skip_load
          /\ UNCHANGED << kb_docs, calls >>
       \/ /\ ~skip_load
          /\ calls' = Append(calls, Call("load_documents", 0, "", "raised"))
          /\ kb_docs' = kb_docs
       \/ /\ ~skip_load
          /\ \E isfile \in DocDirs, listing \in Listings,
                response \in LoadResponses :
               /\ calls' = calls \o
                     << Call("load_documents", 0, "", "ok"),
                        Call("load", 0, "",
                             IF load_raises(response) THEN "raised"
                             ELSE "ok") >>
               /\ kb_docs' = IF load_raises(response) THEN kb_docs
                             ELSE file_paths(listing, isfile)
    /\ UNCHANGED << fn_vars, lib_vars, qa_dataset, eval_mode, skip_load, output_file,
                    qa_items, i, search_results, samples, errors,
                    qa_times, sample_debug, kb_last_trace, eval_samples, result,
                    report >>

\* Step 2 (main.py 200-217): skip, or load_documents, list the directory
\* sorted and kb.load; either call may raise.
LoadDocuments ==
    /\ pc = "load"
    /\ \/ /\ skip_load
          /\ pc' = "qa"
          /\ UNCHANGED << kb_docs, calls, ret >>
       \/ /\ ~skip_load
          /\ calls' = Append(calls, Call("load_documents", 0, "", "raised"))
          /\ pc' = "done"
          /\ ret' = Raise("dataset error")
          /\ kb_docs' = kb_docs
       \/ /\ ~skip_load
          /\ \E isfile \in DocDirs, listing \in Listings,
                response \in LoadResponses :
               LET paths == file_paths(listing, isfile) IN
               IF load_raises(response)
               THEN /\ calls' = calls \o
                         << Call("load_documents", 0, "", "ok"),
                            Call("load", 0, "", "raised") >>
                    /\ kb_docs' = kb_docs
                    /\ pc' = "done"
                    /\ ret' = Raise("load error")
               ELSE /\ calls' = calls \o
                         << Call("load_documents", 0, "", "ok"),
                            Call("load", 0, "", "ok") >>
                    /\ kb_docs' = paths
                    /\ pc' = "qa"
                    /\ ret' = ret
    /\ UNCHANGED << fn_vars, lib_vars, qa_dataset, eval_mode, skip_load, output_file,
                    qa_items, i, search_results, samples, errors,
                    qa_times, sample_debug, kb_last_trace, eval_samples, result,
                    report >>

\* A variant of the mode test that takes every mode but "native" for strict.
IsStrict_NotNative == eval_mode # "native"

\* if eval_mode == "strict" (main.py 232).
IsStrict == eval_mode = "strict"

\* A variant of the loop that walks the QA items from the last to the first.
CurrentItem_Reversed == Len(qa_items) - i

\* for i, qa in enumerate(qa_items): the item of the current iteration.
CurrentItem == i + 1

\* A variant of the sample that takes the reference answer for the
\* generated one and the generated answer for the reference.
EvaluationSample_Swapped(q, a, ctx, gt) ==
    [question |-> q, answer |-> gt, contexts |-> ctx, ground_truth |-> a]

\* EvaluationSample(question=..., answer=..., contexts=..., ground_truth=...).
EvaluationSample(q, a, ctx, gt) ==
    [question |-> q, answer |-> a, contexts |-> ctx, ground_truth |-> gt]

\* A variant of the except branch that records the error and drops the
\* question: no placeholder sample is appended.
ExceptBranch_NoSample(qa, err, elapsed) ==
    /\ errors' = Append(errors,
                    [question |-> qa.question, error |-> err, time |-> elapsed])
    /\ samples' = samples
    /\ sample_debug' = sample_debug
    /\ i' = i + 1
    /\ pc' = "qa"

\* A variant of the except branch that keeps the contexts a successful
\* search of the failed attempt returned.
ExceptBranch_KeepContexts(qa, err, elapsed) ==
    /\ errors' = Append(errors,
                    [question |-> qa.question, error |-> err, time |-> elapsed])
    /\ samples' = Append(samples,
                    EvaluationSample(qa.question, FailedAnswer,
                        IF search_results = <<>> THEN <<PlaceholderContext>>
                        ELSE [k \in 1..Len(search_results) |->
                                 search_results[k].content],
                        qa.answer))
    /\ sample_debug' = Append(sample_debug,
                    [question |-> qa.question, retrieval_queries |-> <<>>])
    /\ i' = i + 1
    /\ pc' = "qa"

\* A variant of the except branch that leaves the loop at the first failure.
ExceptBranch_Break(qa, err, elapsed) ==
    /\ errors' = Append(errors,
                    [question |-> qa.question, error |-> err, time |-> elapsed])
    /\ samples' = Append(samples,
                    EvaluationSample(qa.question, FailedAnswer,
                                     <<PlaceholderContext>>, qa.answer))
    /\ sample_debug' = Append(sample_debug,
                    [question |-> qa.question, retrieval_queries |-> <<>>])
    /\ i' = i + 1
    /\ pc' = "evaluate"

\* The except branch (main.py 291-310) for item qa: one error entry, the
\* placeholder sample and an empty debug entry; the loop goes on.
ExceptBranch(qa, err, elapsed) ==
    /\ errors' = Append(errors,
                    [question |-> qa.question, error |-> err, time |-> elapsed])
    /\ samples' = Append(samples,
                    EvaluationSample(qa.question, FailedAnswer,
                                     <<PlaceholderContext>>, qa.answer))
    /\ sample_debug' = Append(sample_debug,
                    [question |-> qa.question, retrieval_queries |-> <<>>])
    /\ i' = i + 1
    /\ pc' = "qa"

\* A variant of the rest of the try block that leaves out the placeholder
\* context.
AfterAnswer_NoPlaceholder(qa, answer, results, elapsed) ==
    LET contexts == [k \in 1..Len(results) |-> results[k].content]
        retrieval_queries ==
            extract_retrieval_queries(qa.question, eval_mode, results,
                                      kb_last_trace')
    IN /\ qa_times' = Append(qa_times, elapsed)
       /\ IF IsStr(answer)
          THEN /\ samples' = Append(samples,
                     EvaluationSample(qa.question, answer, contexts, qa.answer))
               /\ sample_debug' = Append(sample_debug,
                     [question |-> qa.question,
                      retrieval_queries |-> retrieval_queries])
               /\ errors' = errors
               /\ i' = i + 1
               /\ pc' = "qa"
          ELSE ExceptBranch(qa, "type error", elapsed)

\* A variant of the rest of the try block that keeps each distinct context
\* once.
AfterAnswer_DedupeContexts(qa, answer, results, elapsed) ==
    LET contexts0 ==
            _dedupe_queries([k \in 1..Len(results) |-> results[k].content])
        retrieval_queries ==
            extract_retrieval_queries(qa.question, eval_mode, results,
                                      kb_last_trace')
        contexts == IF contexts0 = <<>> THEN <<PlaceholderContext>>
                    ELSE contexts0
    IN /\ qa_times' = Append(qa_times, elapsed)
       /\ IF IsStr(answer)
          THEN /\ samples' = Append(samples,
                     EvaluationSample(qa.question, answer, contexts, qa.answer))
               /\ sample_debug' = Append(sample_debug,
                     [question |-> qa.question,
                      retrieval_queries |-> retrieval_queries])
               /\ errors' = errors
               /\ i' = i + 1
               /\ pc' = "qa"
          ELSE ExceptBranch(qa, "type error", elapsed)

\* The rest of the try block once kb.answer returned (main.py 247-290).
\* Slicing the answer for the log raises TypeError when it is no string,
\* after the elapsed time was appended to qa_times.
AfterAnswer(qa, answer, results, elapsed) ==
    LET contexts0 == [k \in 1..Len(results) |-> results[k].content]
        retrieval_queries ==
            extract_retrieval_queries(qa.question, eval_mode, results,
                                      kb_last_trace')
        contexts == IF contexts0 = <<>> THEN <<PlaceholderContext>>
                    ELSE contexts0
    IN /\ qa_times' = Append(qa_times, elapsed)
       /\ IF IsStr(answer)
          THEN /\ samples' = Append(samples,
                     EvaluationSample(qa.question, answer, contexts, qa.answer))
               /\ sample_debug' = Append(sample_debug,
                     [question |-> qa.question,
                      retrieval_queries |-> retrieval_queries])
               /\ errors' = errors
               /\ i' = i + 1
               /\ pc' = "qa"
          ELSE ExceptBranch(qa, "type error", elapsed)

\* A variant of KbSearch that goes on to kb.answer, with no contexts, when
\* kb.search raised.
KbSearch_AnswerAnyway ==
    /\ pc = "qa"
    /\ i < Len(qa_items)
    /\ IsStrict
    /\ LET qa == qa_items[CurrentItem] IN
       \/ \E rs \in SearchReturns :
             /\ calls' = Append(calls,
                                Call("search", CurrentItem, qa.question, "ok"))
             /\ search_results' = rs
       \/ /\ calls' = Append(calls,
                            Call("search", CurrentItem, qa.question, "raised"))
          /\ search_results' = <<>>
    /\ pc' = "answer"
    /\ UNCHANGED << fn_vars, lib_vars, qa_dataset, eval_mode, skip_load, output_file,
                    qa_items, i, samples, errors, sample_debug, qa_times,
                    kb_docs, kb_last_trace, eval_samples, result, report, ret >>

\* Strict mode, main.py 239-240: the item's kb.search call.
KbSearch ==
    /\ pc = "qa"
    /\ i < Len(qa_items)
    /\ IsStrict
    /\ LET qa == qa_items[CurrentItem] IN
       \/ \E rs \in SearchReturns :
             /\ calls' = Append(calls,
                   CallVal("search", CurrentItem, qa.question, "ok",
                           [answer |-> NoneVal, results |-> rs,
                            trace |-> NoTrace]))
             /\ search_results' = rs
             /\ pc' = "answer"
             /\ UNCHANGED << i, samples, errors, sample_debug >>
       \/ \E elapsed \in ElapsedTimes :
             /\ calls' = Append(calls,
                            Call("search", CurrentItem, qa.question, "raised"))
             /\ ExceptBranch(qa, "search error", elapsed)
             /\ search_results' = search_results
    /\ UNCHANGED << fn_vars, lib_vars, qa_dataset, eval_mode, skip_load, output_file,
                    qa_items, qa_times, kb_docs, kb_last_trace,
                    eval_samples, result, report, ret >>

\* A variant that falls back on the results kb.answer returned when the
\* strict search found nothing.
ContextResults_Fallback(answer_results) ==
    IF IsStrict /\ search_results # <<>> THEN search_results
    ELSE answer_results

\* The results the contexts are taken from: those of kb.search in strict
\* mode (main.py 239-241, the results of kb.answer are dropped), those of
\* kb.answer otherwise (main.py 244-245).
ContextResults(answer_results) ==
    IF IsStrict THEN search_results ELSE answer_results

\* A variant of the adapter that stores the trace of a response only when
\* the response has one, and keeps the trace it had otherwise.
last_trace_after_KeepStale(trace) ==
    IF trace.is_dict THEN trace ELSE kb_last_trace

\* self.last_trace = trace if isinstance(trace, dict) else None
\* (TRPCAgentGoKnowledgeBase.answer); CrewAIKnowledgeBase.answer stores the
\* trace it built for the call.
last_trace_after(trace) == IF trace.is_dict THEN trace ELSE NoTrace

\* main.py 241 (strict) and 244-245 (native): the item's kb.answer call and
\* the rest of the iteration.
KbAnswer ==
    /\ \/ pc = "answer"
       \/ pc = "qa" /\ i < Len(qa_items) /\ ~IsStrict
    /\ LET qa == qa_items[CurrentItem] IN
       \/ \E elapsed \in ElapsedTimes :
             /\ calls' = Append(calls,
                            Call("answer", CurrentItem, qa.question, "raised"))
             /\ ExceptBranch(qa, "answer error", elapsed)
             /\ UNCHANGED << search_results, qa_times, kb_last_trace >>
       \/ \E r \in AnswerReturns(qa.question, CurrentItem),
             elapsed \in ElapsedTimes :
             /\ calls' = Append(calls,
                   CallVal("answer", CurrentItem, qa.question,
                           IF IsStr(r.answer) THEN "ok" ELSE "null",
                           [answer |-> r.answer,
                            results |-> IF eval_mode = "strict" THEN <<>>
                                        ELSE r.results,
                            trace |-> IF eval_mode = "strict" THEN NoTrace
                                      ELSE r.trace]))
             /\ kb_last_trace' = last_trace_after(r.trace)
             /\ search_results' = ContextResults(r.results)
             /\ AfterAnswer(qa, r.answer, search_results', elapsed)
    /\ UNCHANGED << fn_vars, lib_vars, qa_dataset, eval_mode, skip_load, output_file,
                    qa_items, kb_docs, eval_samples, result,
                    report, ret >>

\* A variant of the test after the loop that takes a run with no successful
\* question for a run with no samples.
CheckSamples_NoSuccess ==
    /\ pc = "qa"
    /\ i = Len(qa_items)
    /\ IF qa_times = <<>>
       THEN /\ ret' = Return(NoSamplesMsg)
            /\ pc' = "done"
       ELSE /\ ret' = ret
            /\ pc' = "evaluate"
    /\ UNCHANGED << fn_vars, lib_vars, qa_dataset, eval_mode, skip_load, output_file,
                    qa_items, i, search_results, samples, errors,
                    qa_times, sample_debug, kb_docs, kb_last_trace, calls,
                    eval_samples, result, report >>

\* main.py 312-319: after the loop.
CheckSamples ==
    /\ pc = "qa"
    /\ i = Len(qa_items)
    /\ IF samples = <<>>
       THEN /\ ret' = Return(NoSamplesMsg)
            /\ pc' = "done"
       ELSE /\ ret' = ret
            /\ pc' = "evaluate"
    /\ UNCHANGED << fn_vars, lib_vars, qa_dataset, eval_mode, skip_load, output_file,
                    qa_items, i, search_results, samples, errors,
                    qa_times, sample_debug, kb_docs, kb_last_trace, calls,
                    eval_samples, result, report >>

\* A variant of Evaluate that lets the evaluator's exception propagate.
Evaluate_Propagate ==
    /\ pc = "evaluate"
    /\ eval_samples' = samples
    /\ \/ \E r \in EvalResults :
             /\ calls' = Append(calls, Call("evaluate", 0, "", r))
             /\ result' = r
             /\ pc' = "report"
             /\ ret' = ret
       \/ /\ calls' = Append(calls, Call("evaluate", 0, "", "raised"))
          /\ result' = result
          /\ pc' = "done"
          /\ ret' = Raise("eval error")
    /\ UNCHANGED << fn_vars, lib_vars, qa_dataset, eval_mode, skip_load, output_file,
                    qa_items, i, search_results, samples, errors,
                    qa_times, sample_debug, kb_docs, kb_last_trace, report >>

\* The samples of the questions that did not fail.
RECURSIVE Successful(_)
Successful(s) ==
    IF s = <<>> THEN <<>>
    ELSE (IF Head(s).answer # FailedAnswer THEN <<Head(s)>> ELSE <<>>)
         \o Successful(Tail(s))

\* A variant of Evaluate that hands only the successful samples to the
\* evaluator.
Evaluate_SuccessfulOnly ==
    /\ pc = "evaluate"
    /\ eval_samples' = Successful(samples)
    /\ \/ \E r \in EvalResults :
             /\ calls' = Append(calls, Call("evaluate", 0, "", r))
             /\ result' = r
             /\ pc' = "report"
             /\ ret' = ret
       \/ /\ calls' = Append(calls, Call("evaluate", 0, "", "raised"))
          /\ result' = result
          /\ pc' = "done"
          /\ ret' = Return(EvalFailedPrefix \o "eval error")
    /\ UNCHANGED << fn_vars, lib_vars, qa_dataset, eval_mode, skip_load, output_file,
                    qa_items, i, search_results, samples, errors,
                    qa_times, sample_debug, kb_docs, kb_last_trace, report >>

\* main.py 341-349: evaluator.evaluate(samples) returns or raises.
Evaluate ==
    /\ pc = "evaluate"
    /\ eval_samples' = samples
    /\ \/ \E r \in EvalResults :
             /\ calls' = Append(calls, Call("evaluate", 0, "", r))
             /\ result' = r
             /\ pc' = "report"
             /\ ret' = ret
       \/ /\ calls' = Append(calls, Call("evaluate", 0, "", "raised"))
          /\ result' = result
          /\ pc' = "done"
          /\ ret' = Return(EvalFailedPrefix \o "eval error")
    /\ UNCHANGED << fn_vars, lib_vars, qa_dataset, eval_mode, skip_load, output_file,
                    qa_items, i, search_results, samples, errors,
                    qa_times, sample_debug, kb_docs, kb_last_trace, report >>

\* A variant of the report without the sample_debug entry.
output_data_NoDebug ==
    [ manifest |-> build_run_manifest,
      timing |-> [qa_avg_seconds |-> avg_time],
      samples_count |-> Len(samples),
      errors_count |-> Len(errors),
      result |-> result,
      errors |-> errors ]

\* The mapping json.dump writes (main.py 360-373).
output_data ==
    [ manifest |-> build_run_manifest,
      timing |-> [qa_avg_seconds |-> avg_time],
      samples_count |-> Len(samples),
      errors_count |-> Len(errors),
      result |-> result,
      errors |-> errors,
      sample_debug |-> sample_debug ]

\* main.py 358-378: the report, when output_file is set, and the return.
WriteReport ==
    /\ pc = "report"
    /\ pc' = "done"
    /\ \/ /\ Truthy(output_file)
          /\ report' = [written |-> TRUE, content |-> output_data]
          /\ ret' = Return(result)
       \/ /\ Truthy(output_file)
          /\ report' = report
          /\ ret' = Raise("io error")
       \/ /\ ~Truthy(output_file)
          /\ report' = report
          /\ ret' = Return(result)
    /\ UNCHANGED << fn_vars, lib_vars, qa_dataset, eval_mode, skip_load, output_file,
                    qa_items, i, search_results, samples, errors,
                    qa_times, sample_debug, kb_docs, kb_last_trace, calls,
                    eval_samples, result >>

Next ==
    \/ LoadQAItems
    \/ LoadDocuments
    \/ KbSearch
    \/ KbAnswer
    \/ CheckSamples
    \/ Evaluate
    \/ WriteReport

Spec == Init /\ [][Next]_vars

\* --------------------------------------------- the helpers on their own
\* The longest list of results and of queries the helpers are applied to.
MaxResults == 2
MaxQueries == 3

\* The values metadata.get("tool_query") can have: None (no such key, or
\* no string), a query, a query with spaces around it, blanks.
ToolQueryValues == {NoneVal, "q1", " q1 ", "  ", "q2"}

\* An entry of trace["tool_calls"] that is no dict.
NonDictCall == [is_dict |-> FALSE,
                arguments |-> [kind |-> "none", query |-> NoneVal]]

\* The traces of the results and of the knowledge base: none, the trace of
\* an agent that lists its queries, the trace of the Go service with tool
\* calls whose arguments are a JSON text, a dict, a text that is no JSON.
TraceValues ==
    { NoTrace,
      Trace(<<"q2", "  ", " q1 ", "q2">>, <<>>, 0),
      Trace(<<NoneVal, "q3">>,
            << ToolCall("json_dict", " q2 "), NonDictCall,
               ToolCall("bad_json", "q4"), ToolCall("dict", "q1"),
               ToolCall("json_dict", NoneVal) >>, 0) }

ResultValues ==
    { Result("c1", tq, tr) : tq \in ToolQueryValues, tr \in TraceValues }

\* The queries _dedupe_queries is applied to.
QueryValues == {"q1", "q2", "q3"}

\* run_evaluation is not running.
RunIdle ==
    /\ pc = "idle"
    /\ qa_dataset = <<>> /\ eval_mode = "native" /\ skip_load = TRUE
    /\ output_file = NoneVal /\ qa_items = <<>> /\ i = 0
    /\ search_results = <<>> /\ samples = <<>> /\ errors = <<>>
    /\ qa_times = <<>> /\ sample_debug = <<>> /\ kb_docs = <<>>
    /\ kb_last_trace = NoTrace /\ calls = <<>> /\ eval_samples = <<>>
    /\ result = NoneVal /\ report = NoReport /\ ret = NoRet

InitQueries ==
    /\ RunIdle
    /\ LibIdle("fn")
    /\ fn_result = NoFnResult
    /\ \/ /\ xq_search_results \in SeqsUpTo(ResultValues, MaxResults)
          /\ xq_fallback_trace \in TraceValues
          /\ dq_queries = <<>>
       \/ /\ xq_search_results = <<>>
          /\ xq_fallback_trace = NoTrace
          /\ dq_queries \in SeqsUpTo(QueryValues, MaxQueries)

\* extract_retrieval_queries(question, "native", search_results,
\* fallback_trace).
ExtractQueries ==
    /\ fn_result.op = "none"
    /\ fn_result' =
          [op |-> "extract",
           value |-> extract_retrieval_queries("q1", "native",
                         xq_search_results, xq_fallback_trace),
           first |-> <<>>]
    /\ UNCHANGED << run_vars, lib_vars, xq_search_results, xq_fallback_trace,
                    dq_queries >>

\* _dedupe_queries(queries).
DedupeQueries ==
    /\ fn_result.op = "none"
    /\ fn_result' = [op |-> "dedupe", value |-> _dedupe_queries(dq_queries),
                     first |-> <<>>]
    /\ UNCHANGED << run_vars, lib_vars, xq_search_results, xq_fallback_trace,
                    dq_queries >>

\* _dedupe_queries applied to what _dedupe_queries returned.
DedupeAgain ==
    /\ fn_result.op = "dedupe"
    /\ fn_result' = [op |-> "dedupe2",
                     value |-> _dedupe_queries(fn_result.value),
                     first |-> fn_result.value]
    /\ UNCHANGED << run_vars, lib_vars, xq_search_results, xq_fallback_trace,
                    dq_queries >>

NextQueries ==
    \/ ExtractQueries
    \/ DedupeQueries
    \/ DedupeAgain

SpecQueries == InitQueries /\ [][NextQueries]_vars

\* ------------------------------------------- the Go service of the tRPC
\* knowledge base (trpc_agent_go/knowledge_base.py)
\* The most instances the process constructs.
MaxInstances == 2

\* max_retries of _start_service.
max_retries == 30

\* The ports the instances are given: DEFAULT_PORT and another.
Ports == {8765, 8766}

\* What _check_health can return for a port: True only when a service
\* answers there, one started here and running or one started elsewhere.
HealthAnswers(port) ==
    IF \/ svc_external[port]
       \/ \E p \in 1..Len(svc_procs) :
             svc_procs[p].port = port /\ svc_procs[p].state = "running"
    THEN BOOLEAN ELSE {FALSE}

InitService ==
    /\ RunIdle
    /\ FnIdle
    /\ LibIdle("svc")
    /\ svc_pc = "idle"
    /\ svc_external \in [Ports -> BOOLEAN]
    /\ svc_instances = 0
    /\ svc_port = 0
    /\ _process = 0
    /\ svc_procs = <<>>
    /\ svc_checks = 0
    /\ atexit_hooks = 0
    /\ hooks_left = 0
    /\ svc_call = NewSvcCall

\* The rest of the state, which no step of the service touches.
SvcFrame == UNCHANGED << run_vars, fn_vars, svc_external >> /\ LibUnchanged("svc")

\* __init__ (lines 30-56): a new instance, with or without auto_start.
Construct ==
    /\ svc_pc = "idle"
    /\ svc_instances < MaxInstances
    /\ svc_instances' = svc_instances + 1
    /\ svc_checks' = 0
    /\ \E port \in Ports, auto_start \in BOOLEAN :
          /\ svc_port' = port
          /\ IF auto_start
             THEN svc_pc' = "ensure" /\ svc_call' = NewSvcCall
             ELSE /\ svc_pc' = "idle"
                  /\ svc_call' = [NewSvcCall EXCEPT !.outcome = "not started"]
    /\ UNCHANGED << _process, svc_procs, atexit_hooks, hooks_left >>
    /\ SvcFrame

\* _ensure_service_running (58-65): return when the service is healthy,
\* else build and start.
EnsureServiceRunning ==
    /\ svc_pc = "ensure"
    /\ \E healthy \in HealthAnswers(svc_port) :
          IF healthy
          THEN /\ svc_pc' = "idle"
               /\ svc_call' = [svc_call EXCEPT !.outcome = "already running"]
          ELSE /\ svc_pc' = "build"
               /\ svc_call' = svc_call
    /\ UNCHANGED << svc_instances, svc_port, _process, svc_procs, svc_checks,
                    atexit_hooks, hooks_left >>
    /\ SvcFrame

\* _build_service (67-78): go build; RuntimeError on a non-zero return code.
BuildService ==
    /\ svc_pc = "build"
    /\ \E returncode \in {0, 1} :
          IF returncode # 0
          THEN /\ svc_pc' = "idle"
               /\ svc_call' = [svc_call EXCEPT !.outcome = "build failed"]
          ELSE /\ svc_pc' = "start"
               /\ svc_call' = [svc_call EXCEPT !.built = TRUE]
    /\ UNCHANGED << svc_instances, svc_port, _process, svc_procs, svc_checks,
                    atexit_hooks, hooks_left >>
    /\ SvcFrame

\* _start_service, lines 82-94: RuntimeError when the binary is missing,
\* else Popen, stored in the class attribute, and atexit.register.
StartService ==
    /\ svc_pc = "start"
    /\ \E binary_exists \in BOOLEAN :
          IF ~binary_exists
          THEN /\ svc_pc' = "idle"
               /\ svc_call' = [svc_call EXCEPT !.outcome = "no binary"]
               /\ UNCHANGED << _process, svc_procs, atexit_hooks >>
          ELSE /\ svc_procs' = Append(svc_procs,
                                      [port |-> svc_port, state |-> "running"])
               /\ _process' = Len(svc_procs) + 1
               /\ atexit_hooks' = atexit_hooks + 1
               /\ svc_call' = [svc_call EXCEPT !.spawned = Len(svc_procs) + 1]
               /\ svc_pc' = "poll"
    /\ UNCHANGED << svc_instances, svc_port, svc_checks, hooks_left >>
    /\ SvcFrame

\* One pass of the loop up to the poll (lines 98-102): RuntimeError when
\* the process has exited.
PollProcess ==
    /\ svc_pc = "poll"
    /\ svc_checks < max_retries
    /\ \E exited \in BOOLEAN :
          IF exited
          THEN /\ svc_procs' = [svc_procs EXCEPT ![_process].state = "exited"]
               /\ svc_call' = [svc_call EXCEPT !.outcome = "exited",
                                               !.last_poll = "exited"]
               /\ svc_pc' = "idle"
          ELSE /\ svc_procs' = svc_procs
               /\ svc_call' = [svc_call EXCEPT !.last_poll = "running"]
               /\ svc_pc' = "health"
    /\ UNCHANGED << svc_instances, svc_port, _process, svc_checks,
                    atexit_hooks, hooks_left >>
    /\ SvcFrame

\* The rest of the pass (lines 104-107): return when healthy, else sleep
\* and go round.
CheckHealth ==
    /\ svc_pc = "health"
    /\ svc_checks' = svc_checks + 1
    /\ \E healthy \in HealthAnswers(svc_port) :
          /\ svc_call' = [svc_call EXCEPT
                            !.last_health = healthy,
                            !.outcome = IF healthy THEN "started" ELSE @]
          /\ svc_pc' = IF healthy THEN "idle" ELSE "poll"
    /\ UNCHANGED << svc_instances, svc_port, _process, svc_procs,
                    atexit_hooks, hooks_left >>
    /\ SvcFrame

\* _stop_service (122-132): terminate the process of the class attribute,
\* wait or kill, and set the attribute to None.
StopService ==
    IF _process # 0
    THEN /\ svc_procs' = [svc_procs EXCEPT ![_process].state =
                              IF @ = "running" THEN "terminated" ELSE @]
         /\ _process' = 0
    ELSE UNCHANGED << svc_procs, _process >>

\* A variant of the end of _start_service that raises without stopping the
\* process.
StartTimeout_NoStop ==
    /\ svc_pc = "poll"
    /\ svc_checks = max_retries
    /\ svc_call' = [svc_call EXCEPT !.outcome = "timeout"]
    /\ svc_pc' = "idle"
    /\ UNCHANGED << svc_instances, svc_port, svc_checks, atexit_hooks,
                    hooks_left, svc_procs, _process >>
    /\ SvcFrame

\* The loop ran out (lines 109-120): _stop_service and RuntimeError.
StartTimeout ==
    /\ svc_pc = "poll"
    /\ svc_checks = max_retries
    /\ StopService
    /\ svc_call' = [svc_call EXCEPT !.outcome = "timeout"]
    /\ svc_pc' = "idle"
    /\ UNCHANGED << svc_instances, svc_port, svc_checks, atexit_hooks,
                    hooks_left >>
    /\ SvcFrame

\* The interpreter exits, after a constructor returned or raised: the
\* registered hooks are to run.
ProgramExit ==
    /\ svc_pc = "idle"
    /\ svc_pc' = "atexit"
    /\ hooks_left' = atexit_hooks
    /\ UNCHANGED << svc_instances, svc_port, _process, svc_procs, svc_checks,
                    atexit_hooks, svc_call >>
    /\ SvcFrame

\* One registered hook runs _stop_service.
RunHook ==
    /\ svc_pc = "atexit"
    /\ hooks_left > 0
    /\ StopService
    /\ hooks_left' = hooks_left - 1
    /\ UNCHANGED << svc_pc, svc_instances, svc_port, svc_checks,
                    atexit_hooks, svc_call >>
    /\ SvcFrame

\* All hooks have run.
ProgramExited ==
    /\ svc_pc = "atexit"
    /\ hooks_left = 0
    /\ svc_pc' = "exited"
    /\ UNCHANGED << svc_instances, svc_port, _process, svc_procs, svc_checks,
                    atexit_hooks, hooks_left, svc_call >>
    /\ SvcFrame

NextService ==
    \/ Construct
    \/ EnsureServiceRunning
    \/ BuildService
    \/ StartService
    \/ PollProcess
    \/ CheckHealth
    \/ StartTimeout
    \/ ProgramExit
    \/ RunHook
    \/ ProgramExited

SpecService == InitService /\ [][NextService]_vars

\* --------------------------------- CrewAIKnowledgeBase._split_text
\* (crewai/knowledge_base.py 185-198)
\* The longest text, the largest chunk size and the largest overlap.
MaxTextLen == 6
MaxChunkSize == 3
MaxChunkOverlap == 4

\* The texts: a text of n characters is the list of its positions 1..n, so
\* that a chunk tells where in the text it was cut.
Texts == { [k \in 1..n |-> k] : n \in 0..MaxTextLen }

InitSplit ==
    /\ RunIdle
    /\ FnIdle
    /\ LibIdle("split")
    /\ split_pc = "call"
    /\ split_text \in Texts
    /\ _chunk_size \in 1..MaxChunkSize
    /\ _chunk_overlap \in 0..MaxChunkOverlap
    /\ split_start = 0
    /\ chunks = <<>>

\* text[start:end] of Python, start counted from 0 and end cut at the length.
Slice(text, start, end) ==
    SubSeq(text, start + 1, IF end < Len(text) THEN end ELSE Len(text))

\* A variant of the step that ignores the overlap.
split_step_NoOverlap == _chunk_size

\* step = chunk_size - chunk_overlap, or chunk_size when that is not positive
\* (lines 190-192).
split_step ==
    IF _chunk_size - _chunk_overlap <= 0 THEN _chunk_size
    ELSE _chunk_size - _chunk_overlap

SplitFrame ==
    /\ UNCHANGED << run_vars, fn_vars, split_text, _chunk_size, _chunk_overlap >>
    /\ LibUnchanged("split")

\* Lines 187-189: an empty text gives no chunk.
SplitEnter ==
    /\ split_pc = "call"
    /\ split_pc' = IF split_text = <<>> THEN "done" ELSE "loop"
    /\ UNCHANGED << split_start, chunks >>
    /\ SplitFrame

\* One pass of for start in range(0, len(text), step) (lines 193-197): the
\* chunk is appended, and the loop ends at the break or with the range.
SplitPass ==
    /\ split_pc = "loop"
    /\ split_start < Len(split_text)
    /\ LET end == split_start + _chunk_size IN
       /\ chunks' = Append(chunks, Slice(split_text, split_start, end))
       /\ IF end >= Len(split_text)
             \/ split_start + split_step >= Len(split_text)
          THEN split_pc' = "done" /\ split_start' = split_start
          ELSE split_pc' = "loop" /\ split_start' = split_start + split_step
    /\ SplitFrame

NextSplit ==
    \/ SplitEnter
    \/ SplitPass

\* The loop is not suspended: a call that can take a step takes it.
SpecSplit == InitSplit /\ [][NextSplit]_vars /\ WF_vars(NextSplit)

\* ----------------------------------- CrewAIKnowledgeBase.search
\* (crewai/knowledge_base.py 282-343) and its call at main.py 239
\* The largest k and max_results, and the most documents in the collection.
MaxK == 2
MaxCount == 3

\* The distances collection.query can report, in hundredths: below 0, within
\* [0, 1], 1, above 1.
DistanceValues == {-50, 30, 100, 250}

\* The calls inside the try block that can raise.
FailurePoints ==
    {"import", "PersistentClient", "get_or_create_collection", "count",
     "query"}

InitCrew ==
    /\ RunIdle
    /\ FnIdle
    /\ LibIdle("crew")
    /\ crew_pc = "call"
    /\ crew_k \in 0..MaxK
    /\ _max_results \in 1..MaxK
    /\ knowledge_path_exists \in BOOLEAN
    /\ collection_count \in 0..MaxCount
    /\ n_results = 0
    /\ query_distances = <<>>
    /\ crew_out = NoCrewOut
    /\ crew_errors = <<>>

\* k or self._max_results (line 300): k = 0 stands for None and for 0.
effective_k == IF crew_k # 0 THEN crew_k ELSE _max_results

\* min(effective_k, collection.count()) (line 321).
requested_results ==
    IF effective_k < collection_count THEN effective_k ELSE collection_count

\* A variant of the score that is not clamped.
score_of_NoClamp(distances, idx) ==
    IF idx <= Len(distances) THEN 100 - distances[idx] ELSE 50

\* Lines 331-336, in hundredths: 1 - distance clamped into [0, 1], or 0.5
\* when the response has no distance for the document.
score_of(distances, idx) ==
    LET score == IF idx <= Len(distances) THEN 100 - distances[idx] ELSE 50
    IN IF score < 0 THEN 0 ELSE IF score > 100 THEN 100 ELSE score

\* The documents and distances collection.query can answer for n results:
\* n documents, with a distance for each or for all but the last.
QueryDistances(n) ==
    IF n = 0 THEN {<<>>}
    ELSE [1..n -> DistanceValues] \cup [1..(n - 1) -> DistanceValues]

CrewFrame ==
    /\ UNCHANGED << run_vars, fn_vars, crew_k, _max_results,
                    knowledge_path_exists, collection_count >>
    /\ LibUnchanged("crew")

\* A variant of search without the except clause: a failure propagates.
CrewSearchFails_Propagate ==
    /\ crew_pc = "call"
    /\ \E point \in FailurePoints :
          /\ point \in {"count", "query"} => knowledge_path_exists
          /\ point = "query" => collection_count > 0
          /\ n_results' = IF point = "query" THEN requested_results ELSE 0
    /\ crew_out' = [raised |-> TRUE, failed |-> TRUE, results |-> <<>>]
    /\ crew_pc' = "returned"
    /\ UNCHANGED << query_distances, crew_errors >>
    /\ CrewFrame

\* search when a call of its try block raises: the except clause (lines
\* 341-343) returns the empty list.
CrewSearchFails ==
    /\ crew_pc = "call"
    /\ \E point \in FailurePoints :
          /\ point \in {"count", "query"} => knowledge_path_exists
          /\ point = "query" => collection_count > 0
          /\ n_results' = IF point = "query" THEN requested_results ELSE 0
    /\ crew_out' = [raised |-> FALSE, failed |-> TRUE, results |-> <<>>]
    /\ crew_pc' = "returned"
    /\ UNCHANGED << query_distances, crew_errors >>
    /\ CrewFrame

\* search when nothing raises (lines 296-340).
CrewSearch ==
    /\ crew_pc = "call"
    /\ crew_pc' = "returned"
    /\ IF ~knowledge_path_exists \/ collection_count = 0
       THEN /\ crew_out' = NoCrewOut
            /\ UNCHANGED << n_results, query_distances >>
       ELSE /\ n_results' = requested_results
            /\ \E distances \in QueryDistances(requested_results) :
                  /\ query_distances' = distances
                  /\ crew_out' =
                        [raised |-> FALSE, failed |-> FALSE,
                         results |-> [idx \in 1..requested_results |->
                                        [content |-> idx,
                                         score |-> score_of(distances, idx)]]]
    /\ crew_errors' = crew_errors
    /\ CrewFrame

\* The strict-mode caller (main.py 231-240, 291-296): an exception of
\* kb.search is recorded as an error of the question.
StrictCaller ==
    /\ crew_pc = "returned"
    /\ crew_pc' = "done"
    /\ crew_errors' = IF crew_out.raised THEN <<"search error">> ELSE <<>>
    /\ UNCHANGED << n_results, query_distances, crew_out >>
    /\ CrewFrame

NextCrew ==
    \/ CrewSearchFails
    \/ CrewSearch
    \/ StrictCaller

SpecCrew == InitCrew /\ [][NextCrew]_vars

\* ------------------------- the batch loop of load
\* (langchain/knowledge_base.py 151-165, crewai/knowledge_base.py 256-280)
\* The most chunks a load splits its files into.
MaxTotal == 120

batch_size == 50

\* (total + batch_size - 1) // batch_size (langchain 154, crewai 260).
total_batches(total) == (total + batch_size - 1) \div batch_size

\* A variant of the batch that always has batch_size chunks.
batch_of_NoCap(start, total) == start..(start + batch_size - 1)

\* documents[i:i + batch_size]: the indices of the chunks of the batch that
\* starts at i.
batch_of(start, total) ==
    start..((IF start + batch_size < total THEN start + batch_size
             ELSE total) - 1)

InitBatch ==
    /\ RunIdle
    /\ FnIdle
    /\ LibIdle("batch")
    /\ batch_pc = "loop"
    /\ batch_kb \in {"langchain", "crewai"}
    /\ batch_total \in 0..MaxTotal
    /\ batch_i = 0
    /\ batch_adds = <<>>
    /\ batch_store = {}

BatchFrame ==
    /\ UNCHANGED << run_vars, fn_vars, batch_kb, batch_total >>
    /\ LibUnchanged("batch")

\* One pass of the loop whose add call returns.
BatchAdd ==
    /\ batch_pc = "loop"
    /\ batch_i < batch_total
    /\ batch_adds' =
          Append(batch_adds, [chunks |-> batch_of(batch_i, batch_total),
                              ok |-> TRUE])
    /\ batch_store' = batch_store \cup batch_of(batch_i, batch_total)
    /\ batch_i' = batch_i + batch_size
    /\ batch_pc' = "loop"
    /\ BatchFrame

\* A variant of the failing pass that removes what the load added.
BatchAddFails_Rollback ==
    /\ batch_pc = "loop"
    /\ batch_i < batch_total
    /\ batch_adds' =
          Append(batch_adds, [chunks |-> batch_of(batch_i, batch_total),
                              ok |-> FALSE])
    /\ batch_store' = {}
    /\ batch_pc' = "raised"
    /\ UNCHANGED batch_i
    /\ BatchFrame

\* One pass of the loop whose add call raises: the except clause prints and
\* re-raises (langchain 160-165, crewai 274-278). What the store kept of the
\* failing batch is the store's business: nothing, or a part of it.
BatchAddFails ==
    /\ batch_pc = "loop"
    /\ batch_i < batch_total
    /\ batch_adds' =
          Append(batch_adds, [chunks |-> batch_of(batch_i, batch_total),
                              ok |-> FALSE])
    /\ \E kept \in {{}, {batch_i}} : batch_store' = batch_store \cup kept
    /\ batch_pc' = "raised"
    /\ UNCHANGED batch_i
    /\ BatchFrame

\* The range is exhausted (for CrewAI also: documents is empty, line 279).
BatchEnd ==
    /\ batch_pc = "loop"
    /\ batch_i >= batch_total
    /\ batch_pc' = "done"
    /\ UNCHANGED << batch_i, batch_adds, batch_store >>
    /\ BatchFrame

NextBatch ==
    \/ BatchAdd
    \/ BatchAddFails
    \/ BatchEnd

SpecBatch == InitBatch /\ [][NextBatch]_vars

\* ------------------------------------------------------- _fetch_rows
\* (download_gaia_2023_level1_validation.py 122-157)
\* The pages of a call that are recorded in full.
MaxPages == 3

length == 100

\* The numbers of items of a page: none, fewer than length, length, more.
PageSizes == {0, 99, 100, 101}

\* The items of a page: all dicts, all dicts but the first, no dict.
PageShapes == {"dicts", "mixed", "no_dicts"}

\* The num_rows_total a response can report.
TotalValues == {100, 150, 250}

\* The "rows" of a response: a list of items, or a value that is not a list
\* and not falsy.
Pages ==
    {[kind |-> "not_list", n |-> 0, shape |-> "dicts"]}
      \cup {[kind |-> "list", n |-> n, shape |-> s] :
              n \in PageSizes \ {0}, s \in PageShapes}
      \cup {[kind |-> "list", n |-> 0, shape |-> "dicts"]}

\* The "num_rows_total" of a response: an int, or absent or not an int.
Totals ==
    {[is_int |-> FALSE, total |-> 0]}
      \cup {[is_int |-> TRUE, total |-> t] : t \in TotalValues}

\* The items of a page that are dicts, in order; an item is named by its
\* position among all items received.
dict_rows(offset, page) ==
    CASE page.shape = "dicts" -> [k \in 1..page.n |-> offset + k]
      [] page.shape = "mixed" -> [k \in 1..(page.n - 1) |-> offset + k + 1]
      [] OTHER -> <<>>

\* Why the loop breaks after a page, "none" when it goes on (lines 139-148).
break_after(offset, page, total) ==
    CASE page.kind # "list" -> "not_list"
      [] page.n = 0 -> "empty"
      [] total.is_int /\ offset + page.n >= total.total -> "total"
      [] page.n < length -> "short"
      [] OTHER -> "none"

InitFetch ==
    /\ RunIdle
    /\ FnIdle
    /\ LibIdle("fetch")
    /\ fetch_pc = "loop"
    /\ fetch_offset = 0
    /\ fetch_rows = <<>>
    /\ fetch_log = <<>>
    /\ fetch_end = "none"
    /\ fetch_beyond = FALSE

FetchFrame ==
    /\ UNCHANGED << run_vars, fn_vars >>
    /\ LibUnchanged("fetch")

\* One pass of the loop (lines 129-149) and, when it breaks, the end of the
\* function (150-155).
FetchPage ==
    /\ fetch_pc = "loop"
    /\ Len(fetch_log) < MaxPages
    /\ \E page \in Pages, total \in Totals :
          LET why == break_after(fetch_offset, page, total)
              rows == IF page.kind = "list" /\ page.n > 0
                      THEN fetch_rows \o dict_rows(fetch_offset, page)
                      ELSE fetch_rows
          IN /\ fetch_log' =
                   Append(fetch_log, [offset |-> fetch_offset,
                                      page |-> page, total |-> total])
             /\ fetch_rows' = rows
             /\ fetch_offset' =
                   IF page.kind = "list" THEN fetch_offset + page.n
                   ELSE fetch_offset
             /\ fetch_end' = why
             /\ fetch_pc' =
                   IF why = "none" THEN "loop"
                   ELSE IF rows = <<>> THEN "DownloadError" ELSE "returned"
    /\ UNCHANGED fetch_beyond
    /\ FetchFrame

\* _http_get_json raises (lines 64-82): DownloadError for an HTTP error,
\* another exception for a failed connection or a body that is not JSON; a
\* response that is not an object makes obj.get raise.
FetchFails ==
    /\ fetch_pc = "loop"
    /\ Len(fetch_log) < MaxPages
    /\ \E error \in {"DownloadError", "Exception"} : fetch_pc' = error
    /\ fetch_end' = "error"
    /\ UNCHANGED << fetch_offset, fetch_rows, fetch_log, fetch_beyond >>
    /\ FetchFrame

\* A pass after MaxPages pages, for a server that goes on answering with
\* pages of length items and no num_rows_total: the loop goes on. Of these
\* passes only the parity is recorded; fetch_offset, fetch_rows and
\* fetch_log keep what they held after MaxPages pages.
FetchPageBeyond ==
    /\ fetch_pc = "loop"
    /\ Len(fetch_log) = MaxPages
    /\ break_after(fetch_offset, [kind |-> "list", n |-> length,
                                  shape |-> "dicts"],
                   [is_int |-> FALSE, total |-> 0]) = "none"
    /\ fetch_beyond' = ~fetch_beyond
    /\ UNCHANGED << fetch_pc, fetch_offset, fetch_rows, fetch_log,
                    fetch_end >>
    /\ FetchFrame

NextFetch ==
    \/ FetchPage
    \/ FetchFails
    \/ FetchPageBeyond

\* The loop is not suspended for ever: every pass gets its answer.
SpecFetch == InitFetch /\ [][NextFetch]_vars /\ WF_vars(NextFetch)

\* ------------------------------------------ the dataset downloader
\* (download_gaia_2023_level1_validation.py: _http_download 85-105,
\* _parse_args 258-293, main 296-344)
\* The most runs of main.
MaxRuns == 2

FileSet == {Files[n] : n \in 1..Len(Files)}

\* The command lines of a run.
Argvs ==
    {<<>>, <<"--force">>, <<"--with-files">>,
     <<"--with-files", "--force">>, <<"--with-files", "--skip-files">>,
     <<"--skip-files", "--with-files">>, <<"--bogus">>}

\* argparse rejects an argument it does not know: it prints the usage and
\* raises SystemExit.
argv_valid(argv) ==
    \A n \in 1..Len(argv) :
        argv[n] \in {"--skip-files", "--with-files", "--force"}

\* _parse_args (258-293): skip_files defaults to True, --skip-files stores
\* True and --with-files False in it, the last one given wins; --force
\* stores True.
RECURSIVE _parse_args(_)
_parse_args(argv) ==
    IF argv = <<>> THEN NoArgs
    ELSE LET before == _parse_args(SubSeq(argv, 1, Len(argv) - 1))
             arg == argv[Len(argv)]
         IN CASE arg = "--skip-files" -> [before EXCEPT !.skip_files = TRUE]
              [] arg = "--with-files" -> [before EXCEPT !.skip_files = FALSE]
              [] arg = "--force" -> [before EXCEPT !.force = TRUE]
              [] OTHER -> before

\* The sorted lists of attachment paths _build_tasks can return (line 242).
FilePathLists ==
    {<<>>, <<Files[1]>>, <<Files[2]>>, <<Files[1], Files[2]>>}

\* The ways the steps before the JSON is written can fail (lines 300-304):
\* no token, an HTTP error, no sha, no rows, no tasks raise DownloadError;
\* anything else (no connection, a body that is not JSON) another exception.
PrepareFailures ==
    {[step |-> "_hf_token", failure |-> "DownloadError"],
     [step |-> "_dataset_api", failure |-> "DownloadError"],
     [step |-> "_dataset_api", failure |-> "Exception"],
     [step |-> "_fetch_rows", failure |-> "DownloadError"],
     [step |-> "_fetch_rows", failure |-> "Exception"],
     [step |-> "_build_tasks", failure |-> "DownloadError"]}

\* A variant of the test of _http_download that always downloads.
needs_request_Always(state, force) == TRUE

\* The negation of the early return of _http_download (line 86):
\* dst.exists() and not force and dst.stat().st_size > 0.
needs_request(state, force) ==
    ~(state # "missing" /\ ~force /\ state # "empty")

\* A variant of the exit code that is 2 for every failure.
exit_code_AllTwo(failure) == IF failure = "none" THEN 0 ELSE 2

\* The return values of main (lines 334, 341, 344).
exit_code(failure) ==
    CASE failure = "none" -> 0
      [] failure = "DownloadError" -> 2
      [] OTHER -> 3

\* How a run that ended by raising inside the try block returns.
Returned(failure, json_written, completed) ==
    [outcome |-> "returned", code |-> exit_code(failure),
     failure |-> failure, json_written |-> json_written,
     completed |-> completed]

InitDl ==
    /\ RunIdle
    /\ FnIdle
    /\ LibIdle("dl")
    /\ dl_runs = 0
    /\ dl_pc = "idle"
    /\ dl_argv = <<>>
    /\ dl_args = NoArgs
    /\ dl_file_paths = <<>>
    /\ dl_next = 1
    \* a destination file is missing, empty or holds something ("old"); a
    \* download writes "new" or an empty body
    /\ dl_fs \in [FileSet -> {"missing", "empty", "old"}]
    /\ dl_json = "missing"
    /\ dl_requests = <<>>
    /\ dl_result = NoResult

DlFrame ==
    /\ UNCHANGED << run_vars, fn_vars >>
    /\ LibUnchanged("dl")

\* A run starts: main parses its arguments, outside the try block (line
\* 297). An argument argparse rejects makes SystemExit leave main.
MainParseArgs ==
    /\ dl_pc = "idle"
    /\ dl_runs < MaxRuns
    /\ dl_runs' = dl_runs + 1
    /\ \E argv \in Argvs :
          /\ dl_argv' = argv
          /\ IF argv_valid(argv)
             THEN /\ dl_args' = _parse_args(argv)
                  /\ dl_pc' = "try"
                  /\ dl_result' = NoResult
             ELSE /\ dl_args' = NoArgs
                  /\ dl_pc' = "idle"
                  /\ dl_result' =
                        [outcome |-> "escaped", code |-> 2,
                         failure |-> "SystemExit", json_written |-> FALSE,
                         completed |-> 0]
    /\ dl_file_paths' = <<>>
    /\ dl_next' = 1
    /\ dl_requests' = <<>>
    /\ UNCHANGED << dl_fs, dl_json >>
    /\ DlFrame

\* The token, the dataset sha, the rows and the tasks (lines 300-304).
MainPrepare ==
    /\ dl_pc = "try"
    /\ \/ \E failed \in PrepareFailures :
             /\ dl_result' = Returned(failed.failure, FALSE, 0)
             /\ dl_pc' = "idle"
             /\ UNCHANGED dl_file_paths
       \/ \E paths \in FilePathLists :
             /\ dl_file_paths' = paths
             /\ dl_pc' = "json"
             /\ UNCHANGED dl_result
    /\ UNCHANGED << dl_runs, dl_argv, dl_args, dl_next, dl_fs, dl_json,
                    dl_requests >>
    /\ DlFrame

\* The directories and the dataset JSON (lines 306-317); the file system can
\* refuse either.
MainWriteJson ==
    /\ dl_pc = "json"
    /\ \/ /\ dl_json' = "written"
          /\ dl_result' = [dl_result EXCEPT !.json_written = TRUE]
          /\ dl_pc' = "files"
       \/ /\ dl_result' = Returned("Exception", FALSE, 0)
          /\ dl_pc' = "idle"
          /\ UNCHANGED dl_json
    /\ UNCHANGED << dl_runs, dl_argv, dl_args, dl_file_paths, dl_next, dl_fs,
                    dl_requests >>
    /\ DlFrame

\* One pass of the attachment loop (lines 319-325): _http_download of the
\* next path (85-105). The server answers with a body, which may be empty,
\* or with an HTTP error; the connection can fail.
MainDownload ==
    /\ dl_pc = "files"
    /\ ~dl_args.skip_files
    /\ dl_next <= Len(dl_file_paths)
    /\ LET fp == dl_file_paths[dl_next]
           request(outcome, after) ==
               Append(dl_requests,
                      [file |-> fp, before |-> dl_fs[fp],
                       args |-> dl_args,
                       json_written |-> dl_result.json_written,
                       outcome |-> outcome, after |-> after])
       IN IF ~needs_request(dl_fs[fp], dl_args.force)
          THEN /\ dl_next' = dl_next + 1
               /\ dl_result' = [dl_result EXCEPT !.completed = @ + 1]
               /\ UNCHANGED << dl_pc, dl_fs, dl_requests >>
          ELSE \/ \E body \in {"new", "empty"} :
                     /\ dl_fs' = [dl_fs EXCEPT ![fp] = body]
                     /\ dl_requests' = request("ok", body)
                     /\ dl_next' = dl_next + 1
                     /\ dl_result' = [dl_result EXCEPT !.completed = @ + 1]
                     /\ UNCHANGED dl_pc
               \/ \E failure \in {"DownloadError", "Exception"} :
                     /\ dl_requests' =
                           request(IF failure = "DownloadError"
                                   THEN "http_error" ELSE "exception",
                                   dl_fs[fp])
                     /\ dl_result' =
                           Returned(failure, dl_result.json_written,
                                    dl_result.completed)
                     /\ dl_pc' = "idle"
                     /\ UNCHANGED << dl_fs, dl_next >>
    /\ UNCHANGED << dl_runs, dl_argv, dl_args, dl_file_paths, dl_json >>
    /\ DlFrame

\* The attachments are skipped or all visited: main returns 0 (327-334).
MainReturn ==
    /\ dl_pc = "files"
    /\ dl_args.skip_files \/ dl_next > Len(dl_file_paths)
    /\ dl_result' =
          Returned("none", dl_result.json_written, dl_result.completed)
    /\ dl_pc' = "idle"
    /\ UNCHANGED << dl_runs, dl_argv, dl_args, dl_file_paths, dl_next, dl_fs,
                    dl_json, dl_requests >>
    /\ DlFrame

NextDl ==
    \/ MainParseArgs
    \/ MainPrepare
    \/ MainWriteJson
    \/ MainDownload
    \/ MainReturn

SpecDl == InitDl /\ [][NextDl]_vars

\* ----------------------------------------------------------------- claims
\* The positions in the call log of the calls of op made for QA item n.
CallsOf(op, n) == { k \in 1..Len(calls) : calls[k].op = op /\ calls[k].item = n }

\* The outcome of processing item n is known: a call for it raised, or its
\* kb.answer call was made.
Attempted(n) ==
    \E k \in 1..Len(calls) :
        /\ calls[k].item = n
        /\ calls[k].op = "answer" \/ calls[k].out = "raised"

\* Processing item n failed: a kb call for it raised, or kb.answer returned
\* an answer whose slicing raises.
ItemFailed(n) ==
    \E k \in 1..Len(calls) :
        calls[k].item = n /\ calls[k].out \in {"raised", "null"}

AttemptedItems == { n \in 1..Len(qa_items) : Attempted(n) }

\* The Q&A loop has ended.
LoopEnded == pc \in {"evaluate", "report"} \/ ret.kind = "returned"

\* C1: the number of samples collected equals the number of QA items
\* attempted so far, failed items included, and equals the number of QA items
\* loaded once the loop has ended.
C1_SampleCount ==
    /\ Len(samples) = Cardinality(AttemptedItems)
    /\ LoopEnded => Len(samples) = Len(qa_items)

\* C1 witness: the loop ended over two items, one failed and one succeeded.
C1_Witness ==
    /\ pc = "evaluate"
    /\ Len(qa_items) = 2
    /\ Len(errors) = 1
    /\ Len(samples) = 2

\* C2 as stated: in strict mode every attempted item got exactly one
\* kb.search call and exactly one kb.answer call, whatever the outcomes.
C2_Original ==
    eval_mode = "strict" =>
        \A n \in AttemptedItems :
            /\ Cardinality(CallsOf("search", n)) = 1
            /\ Cardinality(CallsOf("answer", n)) = 1

\* C2 amended: in strict mode every attempted item got exactly one kb.search
\* call, and exactly one kb.answer call when that search returned, none when
\* it raised; the search comes first.
C2_StrictCalls ==
    eval_mode = "strict" =>
        \A n \in AttemptedItems :
            /\ Cardinality(CallsOf("search", n)) = 1
            /\ \A k \in CallsOf("search", n) :
                  /\ calls[k].q = qa_items[n].question
                  /\ IF calls[k].out = "raised"
                     THEN CallsOf("answer", n) = {}
                     ELSE /\ Cardinality(CallsOf("answer", n)) = 1
                          /\ \A a \in CallsOf("answer", n) :
                                a = k + 1 /\ calls[a].q = qa_items[n].question

\* C2 witness: strict mode, one item whose search raised and one whose
\* search and answer both returned.
C2_Witness ==
    /\ eval_mode = "strict"
    /\ AttemptedItems = {1, 2}
    /\ \E k \in CallsOf("search", 1) : calls[k].out = "raised"
    /\ \E k \in CallsOf("answer", 2) : calls[k].out = "ok"

\* C3: in any mode other than strict, every attempted item got exactly one
\* kb.answer call, with its question, and no kb.search call.
C3_NativeCalls ==
    eval_mode # "strict" =>
        /\ \A k \in 1..Len(calls) : calls[k].op # "search"
        /\ \A n \in 1..Len(qa_items) :
              /\ Cardinality(CallsOf("answer", n)) = IF n <= i THEN 1 ELSE 0
              /\ \A k \in CallsOf("answer", n) :
                    calls[k].q = qa_items[n].question

\* C3 witness: a mode that is neither strict nor native, two items asked,
\* the first answer raised.
C3_Witness ==
    /\ eval_mode = "other"
    /\ i = 2
    /\ \E k \in CallsOf("answer", 1) : calls[k].out = "raised"
    /\ \E k \in CallsOf("answer", 2) : calls[k].out = "ok"

\* The number of failed items among the first n.
FailedUpTo(n) == Cardinality({ m \in 1..n : ItemFailed(m) })

\* str(e) of the exception behind a failed call.
ErrorText(c) ==
    IF c.out = "null" THEN "type error"
    ELSE IF c.op = "search" THEN "search error" ELSE "answer error"

\* C4: the sample of every item whose processing raised, in kb.search, in
\* kb.answer or in a later step, is the item's question and ground truth with
\* the fixed failure answer and the single placeholder context, and nothing
\* else.
C4_FailedSample ==
    \A n \in AttemptedItems :
        ItemFailed(n) =>
            /\ n <= Len(samples)
            /\ samples[n] = [question |-> qa_items[n].question,
                             answer |-> "Error: failed to generate answer.",
                             contexts |-> <<"No relevant context found.">>,
                             ground_truth |-> qa_items[n].answer]

\* C4 witness: in strict mode the search of item 1 returned contexts, its
\* answer call raised, and the sample was appended.
C4_Witness ==
    /\ eval_mode = "strict"
    /\ i = 1
    /\ search_results # <<>>
    /\ \E k \in CallsOf("search", 1) : calls[k].out = "ok"
    /\ \E k \in CallsOf("answer", 1) : calls[k].out = "raised"
    /\ Len(samples) = 1

\* C5: every failed item has exactly one error entry (question, error text,
\* elapsed time), in order; no kb call follows a failed call for the same
\* item; the call after a failed call is for the next item; and the loop
\* ends only when every item was attempted.
C5_FailureHandling ==
    /\ Len(errors) = Cardinality({ n \in AttemptedItems : ItemFailed(n) })
    /\ \A k \in 1..Len(calls) :
          (calls[k].item >= 1 /\ calls[k].out \in {"raised", "null"}) =>
            LET n == calls[k].item
                e == errors[FailedUpTo(n)]
            IN /\ DOMAIN e = {"question", "error", "time"}
               /\ e.question = qa_items[n].question
               /\ e.error = ErrorText(calls[k])
               /\ e.time \in ElapsedTimes
               /\ \A k2 \in (k + 1)..Len(calls) : calls[k2].item # n
               /\ (k < Len(calls) /\ n < Len(qa_items)) =>
                     calls[k + 1].item = n + 1
    /\ \A n \in 1..Len(qa_items) :
          /\ Cardinality(CallsOf("search", n)) <= 1
          /\ Cardinality(CallsOf("answer", n)) <= 1
    /\ LoopEnded => AttemptedItems = 1..Len(qa_items)

\* C5 witness: item 1 failed and item 2 was asked after it.
C5_Witness ==
    /\ ItemFailed(1)
    /\ Len(errors) = 1
    /\ CallsOf("answer", 2) # {}
    /\ ~ItemFailed(2)

\* C6: when evaluator.evaluate raised, run_evaluation has returned the
\* string "Evaluation failed: <error>" (after the cross mark), no exception
\* propagated, no metrics are returned and no report file is written.
C6_EvaluatorFailure ==
    \A k \in CallsOf("evaluate", 0) :
        calls[k].out = "raised" =>
            /\ pc = "done"
            /\ ret = [kind |-> "returned",
                      value |-> CrossMark \o "Evaluation failed: eval error"]
            /\ ret.value \notin EvalResults
            /\ ~report.written

\* C6 witness: the evaluator raised in a run that was given an output file.
C6_Witness ==
    /\ \E k \in CallsOf("evaluate", 0) : calls[k].out = "raised"
    /\ output_file = "out.json"

\* C7: with zero samples after the loop run_evaluation returns the literal
\* "No samples collected. Cannot run evaluation." (after the cross mark)
\* without calling the evaluator or writing a report, and it returns that
\* string exactly when no QA item was loaded.
C7_NoSamples ==
    LET msg == CrossMark \o "No samples collected. Cannot run evaluation." IN
    /\ (LoopEnded /\ samples = <<>>) =>
          /\ pc = "done"
          /\ ret = [kind |-> "returned", value |-> msg]
          /\ CallsOf("evaluate", 0) = {}
          /\ ~report.written
    /\ LoopEnded => ((ret.value = msg) <=> (qa_items = <<>>))
    /\ ~LoopEnded => ret.value # msg

\* C7 witness: the dataset gave no QA item, the documents were loaded and
\* an output file was asked for.
C7_Witness ==
    /\ pc = "done"
    /\ ret.kind = "returned"
    /\ qa_items = <<>>
    /\ CallsOf("load", 0) # {}
    /\ output_file = "out.json"

\* C8: with at least one QA item loaded, evaluator.evaluate is called
\* exactly once, after the last item was processed and as the last call,
\* with the complete list of samples, the placeholder samples of failed
\* questions included.
C8_EvaluateOnce ==
    /\ Cardinality(CallsOf("evaluate", 0)) <= 1
    /\ \A k \in CallsOf("evaluate", 0) :
          /\ k = Len(calls)
          /\ qa_items # <<>>
          /\ AttemptedItems = 1..Len(qa_items)
          /\ eval_samples = samples
          /\ Len(eval_samples) = Len(qa_items)
          /\ \A n \in 1..Len(qa_items) :
                ItemFailed(n) => eval_samples[n].answer = FailedAnswer
    /\ (qa_items # <<>> /\ (pc = "report" \/ ret.kind = "returned")) =>
          Cardinality(CallsOf("evaluate", 0)) = 1

\* C8 witness: two items, both failed, and the evaluator was called.
C8_Witness ==
    /\ Len(qa_items) = 2
    /\ ItemFailed(1) /\ ItemFailed(2)
    /\ CallsOf("evaluate", 0) # {}
    /\ Len(eval_samples) = 2

\* C9: a written report is a mapping with exactly the keys manifest, timing,
\* samples_count, errors_count, result, errors and sample_debug, where
\* samples_count is the number of samples handed to the evaluator,
\* errors_count the length of errors and result the evaluator's string.
C9_ReportContent ==
    report.written =>
        /\ DOMAIN report.content =
              {"manifest", "timing", "samples_count", "errors_count",
               "result", "errors", "sample_debug"}
        /\ report.content.samples_count = Len(eval_samples)
        /\ report.content.errors_count = Len(report.content.errors)
        /\ report.content.errors_count = FailedUpTo(Len(qa_items))
        /\ \E k \in CallsOf("evaluate", 0) :
              /\ calls[k].out \in EvalResults
              /\ report.content.result = calls[k].out

\* C9 witness: a report was written for a run of two questions, one failed.
C9_Witness ==
    /\ report.written
    /\ report.content.samples_count = 2
    /\ report.content.errors_count = 1

\* C10: the QA items are processed one at a time in dataset order: when a
\* kb.search or kb.answer call is made for item m, with the m-th question,
\* the samples of all items before m are appended and no call was made for
\* a later item; an item's search precedes its answer.
C10_Sequential ==
    [][ (Len(calls') = Len(calls) + 1
         /\ calls'[Len(calls')].op \in {"search", "answer"}) =>
           LET c == calls'[Len(calls')] IN
           /\ Len(samples) = c.item - 1
           /\ c.q = qa_items[c.item].question
           /\ \A k \in 1..Len(calls) : calls[k].item <= c.item
           /\ c.op = "search" =>
                 (CallsOf("search", c.item) = {} /\ CallsOf("answer", c.item) = {})
           /\ c.op = "answer" => CallsOf("answer", c.item) = {}
      ]_vars

\* C10 witness: the search of item 2 has returned after item 1's sample was
\* appended.
C10_Witness ==
    /\ pc = "answer"
    /\ CurrentItem = 2
    /\ Len(samples) = 1
    /\ CallsOf("search", 1) # {}
    /\ CallsOf("answer", 1) # {}
    /\ CallsOf("search", 2) # {}

\* The phase a call belongs to: 1 load, 2 questions, 3 evaluate.
PhaseOf(op) ==
    CASE op \in {"load_qa_items", "load_documents", "load"} -> 1
      [] op \in {"search", "answer"} -> 2
      [] op = "evaluate" -> 3

\* C11: the calls of a run are in the order load, questions, evaluate,
\* report: kb.load is called at most once and has returned before the first
\* kb.search or kb.answer call, evaluator.evaluate is called at most once and
\* after the last kb.search or kb.answer call, no call of an earlier phase
\* follows a call of a later one, and the report is written only after
\* evaluate returned, as the last step of the run.
C11_PhaseOrder ==
    /\ \A a, b \in 1..Len(calls) :
          a < b => PhaseOf(calls[a].op) <= PhaseOf(calls[b].op)
    /\ Cardinality(CallsOf("load", 0)) <= 1
    /\ Cardinality(CallsOf("evaluate", 0)) <= 1
    /\ \A a, b \in 1..Len(calls) :
          calls[a].op = "load" /\ calls[b].op \in {"search", "answer"}
              => a < b /\ calls[a].out = "ok"
    /\ \A a, b \in 1..Len(calls) :
          calls[a].op = "evaluate" /\ calls[b].op \in {"search", "answer"}
              => b < a
    /\ report.written
         => /\ \E k \in 1..Len(calls) :
                  /\ calls[k].op = "evaluate"
                  /\ calls[k].out \in EvalResults
                  /\ k = Len(calls)
            /\ report.content.result = calls[Len(calls)].out
            /\ pc = "done"

\* A run that loaded, asked two questions, evaluated and wrote the report.
C11_Witness ==
    /\ report.written
    /\ CallsOf("load", 0) # {}
    /\ CallsOf("answer", 2) # {}
    /\ CallsOf("evaluate", 0) # {}

\* The positions in the call log of the kb.search and kb.answer calls.
QuestionCalls == { k \in 1..Len(calls) : calls[k].op \in {"search", "answer"} }

\* C12: with skip_load neither dataset.load_documents nor kb.load is called
\* and the knowledge base keeps its content; without it kb.load is called at
\* most once, and in every run that asks a question or returns it was called
\* exactly once, before every question, with the regular files of the
\* directory in increasing order of name.
C12_LoadPhase ==
    /\ skip_load
         => /\ \A k \in 1..Len(calls) :
                  calls[k].op \notin {"load_documents", "load"}
            /\ kb_docs = <<>>
    /\ ~skip_load
         => /\ Cardinality(CallsOf("load", 0)) <= 1
            /\ Cardinality(CallsOf("load_documents", 0)) <= 1
            /\ QuestionCalls # {} \/ ret.kind = "returned"
                 => /\ Cardinality(CallsOf("load", 0)) = 1
                    /\ \A l \in CallsOf("load", 0) :
                          /\ calls[l].out = "ok"
                          /\ \A k \in QuestionCalls : l < k
                          /\ \E d \in CallsOf("load_documents", 0) : d < l
            /\ \A a, b \in 1..Len(kb_docs) : a < b => kb_docs[a] < kb_docs[b]

\* Two documents were loaded and a question was asked.
C12_Witness ==
    /\ ~skip_load
    /\ Len(kb_docs) = MaxDocs
    /\ QuestionCalls # {}

\* The positions in the call log of the load calls that raised.
FailedLoads ==
    { k \in 1..Len(calls) :
        /\ calls[k].op \in {"load_qa_items", "load_documents", "load"}
        /\ calls[k].out = "raised" }

\* C13: when dataset.load_qa_items, dataset.load_documents or kb.load
\* raises, run_evaluation ends with that exception: the failed call is the
\* last call of the run, no kb.search, kb.answer or evaluate call is made, no
\* sample, debug entry, time or error entry is recorded and no report is
\* written.
C13_LoadFailure ==
    \A k \in FailedLoads :
        /\ k = Len(calls)
        /\ pc = "done"
        /\ ret.kind = "raised"
        /\ ret.value = IF calls[k].op = "load" THEN "load error"
                       ELSE "dataset error"
        /\ QuestionCalls = {}
        /\ CallsOf("evaluate", 0) = {}
        /\ samples = <<>> /\ errors = <<>>
        /\ sample_debug = <<>> /\ qa_times = <<>>
        /\ eval_samples = <<>>
        /\ ~report.written

\* kb.load raised in a run that had QA items to ask.
C13_Witness ==
    /\ \E k \in FailedLoads : calls[k].op = "load"
    /\ Len(qa_items) = MaxQA

\* The contents of a list of results, in order.
ContentsOf(results) == [k \in 1..Len(results) |-> results[k].content]

\* The contexts a sample built from the results must carry.
ContextsFor(results) ==
    IF results = <<>> THEN <<PlaceholderContext>> ELSE ContentsOf(results)

\* Item n has its sample and no call made for it failed.
Succeeded(n) == n \in 1..Len(samples) /\ ~ItemFailed(n)

\* C14: in strict mode the sample of every successful item carries as
\* contexts the contents of the results its one kb.search call returned, in
\* order, or the placeholder when there were none, and as answer the text
\* its kb.answer call returned; nothing else enters the contexts.
C14_StrictContexts ==
    eval_mode = "strict" =>
        \A n \in 1..Len(samples) :
            Succeeded(n) =>
                /\ Cardinality(CallsOf("search", n)) = 1
                /\ \A k \in CallsOf("search", n) :
                      samples[n].contexts = ContextsFor(calls[k].val.results)
                /\ Cardinality(CallsOf("answer", n)) = 1
                /\ \A k \in CallsOf("answer", n) :
                      /\ samples[n].answer = calls[k].val.answer
                      /\ \A j \in CallsOf("search", n) : j < k

\* A strict run with one sample built from two search results and one
\* built from an empty search, both answered.
C14_Witness ==
    /\ eval_mode = "strict"
    /\ \E n, m \in 1..Len(samples) :
          /\ Succeeded(n) /\ Succeeded(m)
          /\ Len(samples[n].contexts) = 2
          /\ samples[m].contexts = <<PlaceholderContext>>

\* C15: in a mode other than strict the sample of every successful item
\* carries as contexts the contents of the results its one kb.answer call
\* returned, in order and with repeated contents kept, or the placeholder
\* when there were none, and as answer the text of the same call.
C15_NativeContexts ==
    eval_mode # "strict" =>
        \A n \in 1..Len(samples) :
            Succeeded(n) =>
                /\ Cardinality(CallsOf("answer", n)) = 1
                /\ \A k \in CallsOf("answer", n) :
                      /\ samples[n].contexts =
                             ContextsFor(calls[k].val.results)
                      /\ samples[n].answer = calls[k].val.answer

\* A native run with a sample whose two contexts are the same text and a
\* sample whose contexts follow the order of the results.
C15_Witness ==
    /\ eval_mode = "native"
    /\ \E n, m \in 1..Len(samples) :
          /\ Succeeded(n) /\ Succeeded(m)
          /\ samples[n].contexts = <<"c3", "c3">>
          /\ samples[m].contexts = <<"c4", "c3">>

\* C16: the samples are aligned with the QA items: the n-th sample carries
\* the question of the n-th item and its reference answer as ground truth,
\* whether the item succeeded or failed, and the list handed to the
\* evaluator has one sample per item in that order.
C16_Aligned ==
    /\ Len(samples) <= Len(qa_items)
    /\ \A n \in 1..Len(samples) :
          /\ samples[n].question = qa_items[n].question
          /\ samples[n].ground_truth = qa_items[n].answer
    /\ CallsOf("evaluate", 0) # {}
         => /\ Len(eval_samples) = Len(qa_items)
            /\ \A n \in 1..Len(eval_samples) :
                  /\ eval_samples[n].question = qa_items[n].question
                  /\ eval_samples[n].ground_truth = qa_items[n].answer

\* Two different items, one failed and one successful, were evaluated.
C16_Witness ==
    /\ CallsOf("evaluate", 0) # {}
    /\ Len(qa_items) = 2
    /\ qa_items[1] # qa_items[2]
    /\ ItemFailed(1) /\ ~ItemFailed(2)

\* The positions of the calls whose results the contexts of item n are
\* taken from: its kb.search call in strict mode, its kb.answer call
\* otherwise.
RetrievalCalls(n) ==
    IF eval_mode = "strict" THEN CallsOf("search", n) ELSE CallsOf("answer", n)

\* Item n succeeded and its retrieval returned no result.
SucceededEmpty(n) ==
    /\ Succeeded(n)
    /\ \E k \in RetrievalCalls(n) : calls[k].val.results = <<>>

\* C17: every sample, and so every sample handed to the evaluator, has at
\* least one context; an item that succeeds with no result keeps the answer
\* kb.answer returned, has the placeholder as its only context, and adds no
\* error entry: errors holds one entry per failed item and no other.
C17_AtLeastOneContext ==
    /\ \A n \in 1..Len(samples) : Len(samples[n].contexts) >= 1
    /\ \A n \in 1..Len(eval_samples) : Len(eval_samples[n].contexts) >= 1
    /\ \A n \in 1..Len(samples) :
          SucceededEmpty(n) =>
              /\ samples[n].contexts = <<PlaceholderContext>>
              /\ \A k \in CallsOf("answer", n) :
                    samples[n].answer = calls[k].val.answer
    /\ Len(errors) = Cardinality({ n \in 1..Len(samples) : ItemFailed(n) })

\* The evaluator was handed the sample of an item that succeeded without a
\* result, and no item failed.
C17_Witness ==
    /\ CallsOf("evaluate", 0) # {}
    /\ errors = <<>>
    /\ \E n \in 1..Len(eval_samples) :
          /\ SucceededEmpty(n)
          /\ eval_samples[n].contexts = <<PlaceholderContext>>

\* C18: the bookkeeping of the loop: sample_debug is as long as samples,
\* every item with a sample is counted in exactly one of errors and
\* qa_times, so that len(errors) + len(qa_times) = len(samples) and
\* len(errors) <= len(samples), and the average time is 0 when every
\* question failed.
C18_Bookkeeping ==
    /\ Len(sample_debug) = Len(samples)
    /\ Len(errors) + Len(qa_times) = Len(samples)
    /\ Len(errors) <= Len(samples)
    /\ Len(errors) = Len(samples) => avg_time = 0

\* C19: the debug entry of a failed item has no retrieval query, in every
\* mode; in strict mode the debug entry of a successful item has the item's
\* question as its only retrieval query, whatever the results of the search
\* and the trace of the knowledge base carry.
C19_DebugQueries ==
    \A n \in 1..Len(sample_debug) :
        /\ sample_debug[n].question = qa_items[n].question
        /\ ItemFailed(n) => sample_debug[n].retrieval_queries = <<>>
        /\ eval_mode = "strict" /\ ~ItemFailed(n)
             => sample_debug[n].retrieval_queries = <<qa_items[n].question>>

\* A strict run with a failed item and with a successful item whose search
\* results carry a tool query, the knowledge base holding an agent trace.
C19_Witness ==
    /\ eval_mode = "strict"
    /\ Len(sample_debug) = 2
    /\ ItemFailed(1) /\ ~ItemFailed(2)
    /\ kb_last_trace.is_dict
    /\ \E k \in CallsOf("search", 2) :
          /\ calls[k].val.results # <<>>
          /\ calls[k].val.results[1].tool_query # NoneVal

\* No value occurs twice in the list.
NoDuplicates(l) == \A a, b \in 1..Len(l) : a # b => l[a] # l[b]

\* The list out holds every value of the list all once and in the order of
\* their first occurrences in all.
FirstOccurrences(out, all) ==
    /\ NoDuplicates(out)
    /\ { out[k] : k \in 1..Len(out) } = { all[k] : k \in 1..Len(all) }
    /\ \A a, b \in 1..Len(out) :
          a < b =>
            \E j \in 1..Len(all) :
               /\ all[j] = out[a]
               /\ \A h \in 1..j : all[h] # out[b]

\* What str.strip makes of a candidate value that is a string with more
\* than blanks in it; NoneVal for the others.
Cleaned(v) == IF v = NoneVal \/ Strip(v) = "" THEN NoneVal ELSE Strip(v)

\* The trace the queries are read from: that of the first result with a
\* dict trace, else the fallback trace.
C20_Trace ==
    LET with == { k \in 1..Len(xq_search_results) :
                    xq_search_results[k].trace.is_dict }
    IN IF with = {} THEN xq_fallback_trace
       ELSE xq_search_results[CHOOSE k \in with : \A h \in with : k <= h].trace

\* The candidate values in the order the claim gives: the tool_query of
\* every result, the tool_queries of the trace, the queries of the dict or
\* JSON arguments of its tool calls.
C20_Candidates ==
    LET meta == [k \in 1..Len(xq_search_results) |->
                    Cleaned(xq_search_results[k].tool_query)]
        tq == [k \in 1..Len(C20_Trace.tool_queries) |->
                    Cleaned(C20_Trace.tool_queries[k])]
        tc == [k \in 1..Len(C20_Trace.tool_calls) |->
                 LET call == C20_Trace.tool_calls[k] IN
                 IF call.is_dict /\ call.arguments.kind \in {"dict", "json_dict"}
                 THEN Cleaned(call.arguments.query) ELSE NoneVal]
        IsQuery(v) == v # NoneVal
    IN SelectSeq(meta \o tq \o tc, IsQuery)

\* C20: in native mode extract_retrieval_queries returns a list without
\* duplicates of non-empty stripped strings: the queries of the results'
\* metadata, then the trace's tool_queries, then the queries of the trace's
\* tool calls, each at its first occurrence; _dedupe_queries returns every
\* distinct input once in the order of the first occurrences, and applying
\* it to its own result changes nothing.
C20_Queries ==
    /\ fn_result.op = "extract"
         => /\ \A k \in 1..Len(fn_result.value) :
                  /\ fn_result.value[k] \notin {NoneVal, ""}
                  /\ Strip(fn_result.value[k]) = fn_result.value[k]
            /\ FirstOccurrences(fn_result.value, C20_Candidates)
    /\ fn_result.op = "dedupe"
         => FirstOccurrences(fn_result.value, dq_queries)
    /\ fn_result.op = "dedupe2"
         => /\ fn_result.value = fn_result.first
            /\ FirstOccurrences(fn_result.value, dq_queries)

\* The extraction merged a query of the metadata with the same query, with
\* blanks around it, of the tool calls of the fallback trace.
C20_Witness ==
    /\ fn_result.op = "extract"
    /\ Len(xq_search_results) = 2
    /\ xq_search_results[1].tool_query = "  "
    /\ xq_search_results[2].tool_query = "q2"
    /\ ~xq_search_results[1].trace.is_dict
    /\ ~xq_search_results[2].trace.is_dict
    /\ xq_fallback_trace.tool_calls # <<>>
    /\ fn_result.value = <<"q2", "q3", "q1">>

\* C21: outside strict mode the retrieval queries of every successful item
\* are those of the results and of the trace its own kb.answer call
\* returned: a trace an earlier call left in kb.last_trace gives no query to
\* a later item, whatever items failed in between.
C21_OwnTrace ==
    eval_mode # "strict" =>
        \A n \in 1..Len(sample_debug) :
            Succeeded(n) =>
                \A k \in CallsOf("answer", n) :
                    /\ sample_debug[n].retrieval_queries =
                          NativeQueries(calls[k].val.results, calls[k].val.trace)
                    /\ calls[k].val.trace.item \in {0, n}
                    /\ \A j \in 1..Len(calls[k].val.results) :
                          calls[k].val.results[j].trace.item \in {0, n}

\* The first item's call left a trace, the second item's call returned no
\* trace and no result, and the second item has no retrieval query.
C21_Witness ==
    /\ eval_mode = "native"
    /\ Len(sample_debug) = 2
    /\ Succeeded(1) /\ Succeeded(2)
    /\ sample_debug[1].retrieval_queries # <<>>
    /\ sample_debug[2].retrieval_queries = <<>>
    /\ \E k \in CallsOf("answer", 1) : calls[k].val.trace.is_dict
    /\ \E k \in CallsOf("answer", 2) : ~calls[k].val.trace.is_dict

\* C22: _start_service makes at most max_retries health checks; it returns
\* only after a health check succeeded in a pass whose poll found the
\* process running; it raises when the poll finds the process exited, and
\* when no check succeeded in max_retries passes, after it stopped the
\* process and set _process to None. _ensure_service_running builds and
\* spawns nothing when the service is healthy and spawns nothing when the
\* build fails.
C22_StartService ==
    /\ svc_checks <= max_retries
    /\ svc_call.outcome = "started"
         => /\ svc_call.last_poll = "running"
            /\ svc_call.last_health
            /\ svc_checks >= 1
            /\ svc_call.spawned # 0
            /\ svc_pc = "idle"
                 => /\ _process = svc_call.spawned
                    /\ svc_procs[svc_call.spawned].state = "running"
    /\ svc_call.outcome = "exited"
         => /\ svc_call.last_poll = "exited"
            /\ ~svc_call.last_health
            /\ svc_procs[svc_call.spawned].state = "exited"
    /\ svc_call.outcome = "timeout"
         => /\ svc_checks = max_retries
            /\ ~svc_call.last_health
            /\ _process = 0
            /\ svc_procs[svc_call.spawned].state = "terminated"
    /\ svc_call.outcome = "already running"
         => ~svc_call.built /\ svc_call.spawned = 0 /\ svc_checks = 0
    /\ svc_call.outcome = "build failed"
         => ~svc_call.built /\ svc_call.spawned = 0 /\ svc_checks = 0

\* _start_service gave up after max_retries failed health checks.
C22_Witness ==
    /\ svc_call.outcome = "timeout"
    /\ svc_checks = max_retries
    /\ svc_pc = "idle"

\* C23: once the atexit hooks have run, no process spawned by
\* _start_service is still running, whatever the number of instances, and
\* _process is None.
C23_AllTerminated ==
    svc_pc = "exited" =>
        /\ _process = 0
        /\ \A p \in 1..Len(svc_procs) : svc_procs[p].state # "running"

\* The step the claim names.
C24_Step ==
    IF _chunk_size - _chunk_overlap > 0 THEN _chunk_size - _chunk_overlap
    ELSE _chunk_size

\* What _split_text has returned is right for its text.
C24_Chunks ==
    split_pc = "done" =>
        /\ split_text = <<>> => chunks = <<>>
        /\ split_text # <<>> => chunks # <<>>
        /\ \A j \in 1..Len(chunks) :
              /\ chunks[j] # <<>>
              /\ Len(chunks[j]) <= _chunk_size
              /\ \A k \in 1..Len(chunks[j]) :
                    chunks[j][k] = (j - 1) * C24_Step + k
              /\ j < Len(chunks)
                   => chunks[j][Len(chunks[j])] < Len(split_text)
        /\ \A p \in 1..Len(split_text) :
              \E j \in 1..Len(chunks) : \E k \in 1..Len(chunks[j]) :
                  chunks[j][k] = p
        /\ chunks # <<>>
             => LET last == chunks[Len(chunks)]
                IN last[Len(last)] = Len(split_text)

\* C24: for chunk_size >= 1 and chunk_overlap >= 0, _split_text returns, and
\* what it returns are the windows of the text: none for the empty text;
\* otherwise chunk j (from 0) is the non-empty piece of at most chunk_size
\* characters that starts at j * step, every character is in a chunk, the
\* last chunk ends with the text and no chunk before it does.
C24_SplitText == []C24_Chunks /\ <>(split_pc = "done")

\* A text cut with overlapping windows into more than two chunks, the last
\* one shorter than chunk_size.
C24_Witness ==
    /\ split_pc = "done"
    /\ _chunk_overlap = 1
    /\ _chunk_size = 3
    /\ Len(chunks) = 3
    /\ Len(chunks[3]) = 2

\* What C25 states apart from the scores: search does not raise, a failure
\* inside it, a missing store and an empty collection give the empty list,
\* collection.query is asked for no more results than the collection holds,
\* and the strict-mode caller records no error.
C25_NeverRaises ==
    /\ ~crew_out.raised
    /\ crew_out.failed => crew_out.results = <<>>
    /\ (crew_pc # "call" /\ (~knowledge_path_exists \/ collection_count = 0))
         => crew_out.results = <<>> /\ n_results = 0
    /\ n_results <= collection_count
    /\ Len(crew_out.results) <= n_results
    /\ crew_errors = <<>>

\* 1 - distance clamped into [0, 1], in hundredths.
C25_Clamped(distance) ==
    IF 100 - distance < 0 THEN 0
    ELSE IF 100 - distance > 100 THEN 100 ELSE 100 - distance

\* C25 as stated: the above, and every returned score is 1 - distance
\* clamped into [0, 1].
C25_Original ==
    /\ C25_NeverRaises
    /\ \A idx \in 1..Len(crew_out.results) :
          /\ idx <= Len(query_distances)
          /\ crew_out.results[idx].score = C25_Clamped(query_distances[idx])

\* C25: search does not raise; a failure inside it, a missing store and an
\* empty collection give the empty list; it asks for no more results than
\* the collection holds; every returned score is 1 - distance clamped into
\* [0, 1] when the response has a distance for the document and 0.5 when it
\* has none; the strict-mode caller records no error for a failing search.
C25_Search ==
    /\ C25_NeverRaises
    /\ \A idx \in 1..Len(crew_out.results) :
          crew_out.results[idx].score =
              IF idx <= Len(query_distances)
              THEN C25_Clamped(query_distances[idx]) ELSE 50

\* A search asked for more than the collection holds, answered with a
\* distance above 1, went
\* through the caller.
C25_Witness ==
    /\ crew_pc = "done"
    /\ effective_k > collection_count
    /\ n_results = collection_count
    /\ Len(crew_out.results) = 1
    /\ crew_out.results[1].score = 0

\* A failure of collection.query was swallowed and the caller went on.
C25_FailureWitness ==
    /\ crew_pc = "done"
    /\ crew_out.failed
    /\ n_results > 0

\* The chunks of the add calls that returned.
C26_Added ==
    UNION {batch_adds[n].chunks :
             n \in {m \in 1..Len(batch_adds) : batch_adds[m].ok}}

\* C26: the add calls of a load take the chunks in consecutive batches of at
\* most 50, in order, each chunk in exactly one batch; a load that returns
\* made ceil(total/50) calls and the store holds every chunk; a load whose
\* add raised made no later call, and the store still holds the batches
\* added before.
C26_Batches ==
    /\ \A n \in 1..Len(batch_adds) :
          LET batch == batch_adds[n].chunks
          IN /\ batch # {}
             /\ Cardinality(batch) <= 50
             /\ batch \subseteq 0..(batch_total - 1)
             /\ batch = {c \in 0..(batch_total - 1) :
                            /\ c >= 50 * (n - 1)
                            /\ c < 50 * n}
             /\ ~batch_adds[n].ok => n = Len(batch_adds) /\ batch_pc = "raised"
    /\ C26_Added \subseteq batch_store
    /\ batch_pc = "done" =>
          /\ 50 * (Len(batch_adds) - 1) < batch_total
          /\ batch_total <= 50 * Len(batch_adds)
          /\ batch_store = 0..(batch_total - 1)
    /\ batch_pc = "raised" =>
          /\ ~batch_adds[Len(batch_adds)].ok
          /\ batch_store \subseteq 0..(50 * Len(batch_adds) - 1)

\* The third add call of a load of more than 100 chunks raised, after two
\* full batches: the store holds the 100 chunks.
C26_Witness ==
    /\ batch_pc = "raised"
    /\ Len(batch_adds) = 3
    /\ batch_total > 100
    /\ batch_total < 150
    /\ batch_store = 0..99

\* A load of more than 100 chunks that are not a multiple of 50 returned.
C26_DoneWitness ==
    /\ batch_pc = "done"
    /\ Len(batch_adds) = 3
    /\ batch_total < 150

\* The number of items of the first n recorded pages.
RECURSIVE C27_Received(_)
C27_Received(n) ==
    IF n = 0 THEN 0
    ELSE C27_Received(n - 1)
           + (IF fetch_log[n].page.kind = "list" THEN fetch_log[n].page.n
              ELSE 0)

\* The dict items of the recorded pages, each named by its position among
\* all items received.
C27_Dicts ==
    UNION {{C27_Received(n - 1) + k :
              k \in {j \in 1..fetch_log[n].page.n :
                        \/ fetch_log[n].page.shape = "dicts"
                        \/ fetch_log[n].page.shape = "mixed" /\ j > 1}} :
           n \in 1..Len(fetch_log)}

\* Page n is one the claim says the loop stops at.
C27_Stops(n) ==
    LET page == fetch_log[n].page
    IN \/ page.kind # "list"
       \/ page.n = 0
       \/ page.n < 100
       \/ /\ fetch_log[n].total.is_int
          /\ C27_Received(n) >= fetch_log[n].total.total

\* What C27 states of the pages: offsets strictly increasing, each the number
\* of items received before; the loop stops at the first page that is empty,
\* not a list, shorter than 100 or reaches num_rows_total; the call returns
\* the dict rows received in order and raises DownloadError when there are
\* none.
C27_Paging ==
    /\ \A n \in 1..Len(fetch_log) :
          /\ fetch_log[n].offset = C27_Received(n - 1)
          /\ n > 1 => fetch_log[n].offset > fetch_log[n - 1].offset
          /\ n < Len(fetch_log) => ~C27_Stops(n)
    /\ (fetch_pc = "loop" /\ fetch_log # <<>>) => ~C27_Stops(Len(fetch_log))
    /\ fetch_end \notin {"none", "error"} =>
          /\ C27_Stops(Len(fetch_log))
          /\ {fetch_rows[k] : k \in 1..Len(fetch_rows)} = C27_Dicts
          /\ \A k \in 2..Len(fetch_rows) : fetch_rows[k - 1] < fetch_rows[k]
          /\ fetch_pc = IF fetch_rows = <<>> THEN "DownloadError"
                        ELSE "returned"

\* C27: _fetch_rows pages as C27_Paging says, and the call ends whatever the
\* server answers.
C27_FetchRows == []C27_Paging /\ <>(fetch_pc # "loop")

\* A call that received a full page and then a short one returned the dict
\* rows of both.
C27_Witness ==
    /\ fetch_pc = "returned"
    /\ Len(fetch_log) = 2
    /\ fetch_end = "short"
    /\ fetch_log[2].page.shape = "mixed"
    /\ Len(fetch_rows) = 198

\* The run was given --with-files after any --skip-files.
C28_WithFiles(argv) ==
    /\ \E n \in 1..Len(argv) : argv[n] = "--with-files"
    /\ \A n, m \in 1..Len(argv) :
          (argv[n] = "--with-files" /\ argv[m] = "--skip-files") => m < n

\* The run was given --force.
C28_Force(argv) == \E n \in 1..Len(argv) : argv[n] = "--force"

\* C28: an attachment is requested only in a run with --with-files in effect
\* and only when its destination is missing, empty, or --force is given; a
\* run without --with-files requests nothing; a run without --force does not
\* request a file an earlier run downloaded; a request that fails with an
\* HTTP error leaves the destination as it was.
C28_Requests ==
    /\ \A n \in 1..Len(dl_requests) :
          LET r == dl_requests[n]
          IN /\ C28_WithFiles(dl_argv)
             /\ r.before \in {"missing", "empty"} \/ C28_Force(dl_argv)
             /\ r.before = "new" => C28_Force(dl_argv)
             /\ r.outcome = "http_error" =>
                  /\ r.after = r.before
                  /\ dl_fs[r.file] = r.before
    /\ ~C28_WithFiles(dl_argv) => dl_requests = <<>>

\* A second run with --with-files and without --force has visited two
\* files the first run downloaded and requested neither.
C28_Witness ==
    /\ dl_runs = 2
    /\ dl_argv = <<"--with-files">>
    /\ dl_result.outcome = "returned"
    /\ dl_result.completed = 2
    /\ \A f \in FileSet : dl_fs[f] = "new"
    /\ dl_requests = <<>>

\* A request for a file that held something failed with an HTTP error.
C28_ErrorWitness ==
    /\ dl_requests # <<>>
    /\ dl_requests[Len(dl_requests)].outcome = "http_error"
    /\ dl_requests[Len(dl_requests)].before = "old"

\* What C29 states of a run whose arguments were parsed: 0 only when the
\* JSON was written and every requested attachment step completed, 2 on a
\* DownloadError, 3 on another exception; the JSON is written before any
\* attachment is requested; an attachment failure leaves the JSON in place
\* with a code that is not 0.
C29_Codes ==
    /\ dl_result.outcome = "returned" =>
          /\ dl_result.code \in {0, 2, 3}
          /\ dl_result.code = 0 =>
                /\ dl_result.json_written
                /\ dl_json = "written"
                /\ C28_WithFiles(dl_argv) =>
                      dl_result.completed = Len(dl_file_paths)
          /\ dl_result.failure = "DownloadError" => dl_result.code = 2
          /\ dl_result.failure = "Exception" => dl_result.code = 3
    /\ \A n \in 1..Len(dl_requests) :
          /\ dl_requests[n].json_written
          /\ dl_json = "written"
          /\ dl_requests[n].outcome # "ok" =>
                /\ dl_result.outcome = "returned"
                /\ dl_result.code # 0

\* C29 as stated: the above, and no run of main ends with an exception
\* leaving main.
C29_Original ==
    /\ C29_Codes
    /\ dl_result.outcome # "escaped"

\* C29: a run of main whose arguments argparse accepts lets no exception
\* escape, and its return value is as C29_Codes says; an argument argparse
\* rejects makes SystemExit leave main before the try block is entered.
C29_Main ==
    /\ C29_Codes
    /\ dl_result.outcome = "escaped" =>
          /\ ~argv_valid(dl_argv)
          /\ dl_result.failure = "SystemExit"
          /\ dl_requests = <<>>
    /\ (dl_pc = "idle" /\ dl_runs > 0 /\ argv_valid(dl_argv)) =>
          dl_result.outcome = "returned"

\* The second attachment of a run failed with an HTTP error after the first
\* was downloaded: the JSON is in place and main returned 2.
C29_Witness ==
    /\ dl_result.outcome = "returned"
    /\ dl_result.code = 2
    /\ dl_result.completed = 1
    /\ Len(dl_requests) = 2
    /\ dl_json = "written"

====
